---- MODULE Spec2Model ----
(***************************************************************************)
(* A model of the RAPID code analyzer (src/rapid_analyzer.py): the         *)
(* per-file lexical scan, the project-wide call graph, the breadth-first   *)
(* call depths and the per-file scores.                                    *)
(*                                                                         *)
(* Text is modelled at the level of characters: a string is a sequence of  *)
(* one-character strings, a line is a string, a file is a sequence of      *)
(* lines.  The regular expressions of the source are translated to         *)
(* operators over such sequences.                                          *)
(***************************************************************************)
EXTENDS Integers, Sequences, FiniteSets, TLC

VARIABLES
    files,              \* the folder: path -> the lines of the file
    exclude_nostepin,   \* analyze_folder's exclude_nostepin_modules
    dynamic_all,        \* analyze_folder's dynamic_all_variants
    pc,                 \* the orchestrator's position
    todo,               \* paths rglob has still to yield, in discovery order
    scan,               \* the locals of the running analyze_file_first_pass
    proc_registry,      \* fqname -> ProcInfo, as a sequence in insertion order
    proc_name_to_fq,    \* lowercase bare name -> set of fqnames
    file_stats_list,    \* the first pass's records, in discovery order
    call_graph,         \* caller fqname -> set of callee fqnames
    cg_order,           \* the call graph's keys in insertion order
    depth,              \* fqname -> depth from MAIN
    queue,              \* the breadth-first queue
    file_results,       \* compute_file_scores' records
    all_dynamic_prefixes, \* analyze_folder's all_dynamic_prefixes
    dictionary_cache,   \* _dictionary_cache: lowercase word -> bool
    summary,            \* the project score where it is reported
    oracle,             \* whether the WordNet data is installed
    encoding,           \* path -> the encoding the bytes of the file decode with
    synsets_calls,      \* lowercase word -> the wn.synsets calls is_dictionary_word made
    walk                \* the call-tree walk: roots left, frames, visiting, lines

vars == <<files, exclude_nostepin, dynamic_all, pc, todo, scan, proc_registry,
          proc_name_to_fq, file_stats_list, call_graph, cg_order, depth, queue,
          file_results, all_dynamic_prefixes, dictionary_cache, summary,
          oracle, encoding, synsets_calls, walk>>

----------------------------------------------------------------------------
(* Characters, in code-point order: ASCII and one capital of Unicode.      *)

UpperSeq == <<"A","B","C","D","E","F","G","H","I","J","K","L","M",
              "N","O","P","Q","R","S","T","U","V","W","X","Y","Z">>
LowerSeq == <<"a","b","c","d","e","f","g","h","i","j","k","l","m",
              "n","o","p","q","r","s","t","u","v","w","x","y","z">>
DigitSeq == <<"0","1","2","3","4","5","6","7","8","9">>
AsciiSeq == <<" ", "!", "\"", "(", ")", "*", ",", "-">> \o DigitSeq
            \o <<":", ";", "=">> \o UpperSeq \o <<"_">> \o LowerSeq

\* DOUBLE-STRUCK CAPITAL C, a capital letter without lower-case form:
\* str.isupper() is true of it, str.lower() and str.upper() leave it as it is
kDoubleStruckC == "U+2102"
CodePointSeq == AsciiSeq \o <<kDoubleStruckC>>

SeqRange(s) == {s[i] : i \in 1..Len(s)}
Chars == SeqRange(CodePointSeq)
UpperChars == SeqRange(UpperSeq)
\* the characters str.isupper() is true of
IsUpperChars == UpperChars \cup {kDoubleStruckC}
LowerChars == SeqRange(LowerSeq)
DigitChars == SeqRange(DigitSeq)
LetterChars == UpperChars \cup LowerChars \cup {kDoubleStruckC}
WordChars == LetterChars \cup DigitChars \cup {"_"}

\* ord(c): the position of c in code-point order
Ord == [c \in Chars |-> CHOOSE i \in 1..Len(CodePointSeq) : CodePointSeq[i] = c]
\* str.lower() and str.upper() on one character
ToLowerC == [c \in Chars |->
               IF c \in UpperChars
               THEN LowerSeq[CHOOSE i \in 1..26 : UpperSeq[i] = c] ELSE c]
ToUpperC == [c \in Chars |->
               IF c \in LowerChars
               THEN UpperSeq[CHOOSE i \in 1..26 : LowerSeq[i] = c] ELSE c]

Lower(s) == [i \in 1..Len(s) |-> ToLowerC[s[i]]]
Upper(s) == [i \in 1..Len(s) |-> ToUpperC[s[i]]]

Min(S) == CHOOSE x \in S : \A y \in S : x <= y
Max(S) == CHOOSE x \in S : \A y \in S : y <= x

\* Python's None, for the fields that hold a string or None
None == <<>>
\* Python's None, for the fields that hold a line number or None
NoLine == 0

\* a < b for Python strings: lexicographic by code point
StrLess(a, b) ==
    LET n == IF Len(a) < Len(b) THEN Len(a) ELSE Len(b)
        diff == {i \in 1..n : a[i] # b[i]}
    IN  IF diff = {} THEN Len(a) < Len(b)
        ELSE Ord[a[Min(diff)]] < Ord[b[Min(diff)]]

\* sorted(S)[0]
FirstSorted(S) == CHOOSE x \in S : \A y \in S : y = x \/ StrLess(x, y)

\* the position of each string of S in sorted(S), from 0
SortRank(S) == [x \in S |-> Cardinality({y \in S : StrLess(y, x)})]
\* the sequence of the strings of S by their rank
ByRank(S, rank) == [i \in 1..Cardinality(S) |-> CHOOSE x \in S : rank[x] = i - 1]
\* sorted(S), for a set of strings
Sorted(S) == ByRank(S, SortRank(S))

StartsWith(s, p) == Len(p) <= Len(s) /\ SubSeq(s, 1, Len(p)) = p
EndsWith(s, p) == Len(p) <= Len(s) /\ SubSeq(s, Len(s) - Len(p) + 1, Len(s)) = p
\* p in s
Contains(s, p) ==
    \E i \in 1..(Len(s) - Len(p) + 1) :
        s[i] = p[1] /\ SubSeq(s, i, i + Len(p) - 1) = p

\* the first index >= i of s that holds no whitespace (Len(s)+1: none)
SkipSpace(s, i) == Min({j \in i..Len(s) : s[j] # " "} \cup {Len(s) + 1})
\* the first index >= i of s that holds no \w character (Len(s)+1: none)
WordEnd(s, i) == Min({j \in i..Len(s) : s[j] \notin WordChars} \cup {Len(s) + 1})

LStrip(s) == SubSeq(s, SkipSpace(s, 1), Len(s))
RStrip(s) == SubSeq(s, 1, Max({j \in 1..Len(s) : s[j] # " "} \cup {0}))
Strip(s) == RStrip(LStrip(s))

\* \b at position i of s (between s[i-1] and s[i])
Boundary(s, i) ==
    LET before == i > 1 /\ i - 1 <= Len(s) /\ s[i-1] \in WordChars
        after == i >= 1 /\ i <= Len(s) /\ s[i] \in WordChars
    IN  before # after
\* the keyword kw (upper case) at position i of s, ignoring case
KwAt(s, i, kw) ==
    /\ i >= 1
    /\ i + Len(kw) - 1 <= Len(s)
    /\ ToUpperC[s[i]] = kw[1]
    /\ Upper(SubSeq(s, i, i + Len(kw) - 1)) = kw
\* name_regex = [^\W\d_]\w* at position i: the name matched, <<>> when none
NameAt(s, i) ==
    IF i >= 1 /\ i <= Len(s) /\ s[i] \in LetterChars
    THEN SubSeq(s, i, WordEnd(s, i) - 1) ELSE <<>>

----------------------------------------------------------------------------
(* Keywords and the patterns of analyze_file_first_pass.                    *)

kMODULE    == <<"M","O","D","U","L","E">>
kENDMODULE == <<"E","N","D","M","O","D","U","L","E">>
kNOSTEPIN  == <<"N","O","S","T","E","P","I","N">>
kPROC      == <<"P","R","O","C">>
kFUNC      == <<"F","U","N","C">>
kENDPROC   == <<"E","N","D","P","R","O","C">>
kENDFUNC   == <<"E","N","D","F","U","N","C">>
kCALLBYVAR == <<"C","A","L","L","B","Y","V","A","R">>
kWAITTIME  == <<"W","A","I","T","T","I","M","E">>
kTPWRITE   == <<"T","P","W","R","I","T","E">>
kMAIN      == <<"m","a","i","n">>
kQMAIN     == <<":",":","m","a","i","n">>
ColonColon == <<":",":">>
DecoStars  == <<"!","*","*">>
DecoDashes == <<"!","-","-">>
Bang       == <<"!">>

CONTROL_START  == {<<"I","F">>, <<"F","O","R">>, <<"W","H","I","L","E">>,
                   <<"T","E","S","T">>}
CONTROL_END    == {<<"E","N","D","I","F">>, <<"E","N","D","F","O","R">>,
                   <<"E","N","D","W","H","I","L","E">>,
                   <<"E","N","D","T","E","S","T">>}
EXTRA_DECISION == {<<"E","L","S","E","I","F">>, <<"C","A","S","E">>}
DECL_KEYWORDS  == <<<<"P","E","R","S">>, <<"V","A","R">>,
                    <<"C","O","N","S","T">>, <<"L","O","C","A","L">>>>
SET_RESET      == <<<<"S","E","T">>, <<"R","E","S","E","T">>,
                    <<"S","W","I","T","C","H">>>>
SETDO_RESETDO  == <<<<"S","E","T","D","O">>, <<"R","E","S","E","T","D","O">>>>

\* ^\s*KW\s+(name) and, typed, ^\s*KW\s+\w+\s+(name): the name, <<>> when no match
HeaderName(s, kw, typed) ==
    LET i0 == SkipSpace(s, 1)
        i1 == i0 + Len(kw)
        i2 == SkipSpace(s, i1)
        e  == WordEnd(s, i2)
        i3 == SkipSpace(s, e)
    IN  IF ~(KwAt(s, i0, kw) /\ i1 <= Len(s) /\ s[i1] = " ") THEN <<>>
        ELSE IF ~typed THEN NameAt(s, i2)
        ELSE IF i2 <= Len(s) /\ e > i2 /\ e <= Len(s) /\ s[e] = " "
             THEN NameAt(s, i3) ELSE <<>>

\* re.match(^\s*MODULE\s+(name), line)
ModuleName(s) == HeaderName(s, kMODULE, FALSE)
\* proc_pattern, else func_pattern
NewProcName(s) ==
    IF HeaderName(s, kPROC, FALSE) # <<>> THEN HeaderName(s, kPROC, FALSE)
    ELSE HeaderName(s, kFUNC, TRUE)
\* endproc_pattern or endfunc_pattern: ^\s*ENDPROC\b
EndKw(s, kw) ==
    LET i0 == SkipSpace(s, 1)
    IN  KwAt(s, i0, kw) /\ Boundary(s, i0 + Len(kw))
IsEndProc(s) == EndKw(s, kENDPROC) \/ EndKw(s, kENDFUNC)

\* var_decl_pattern: ^\s*(PERS|VAR|CONST|LOCAL)\s+\w+\s+(name)
DeclName(s) ==
    LET hits == {k \in 1..Len(DECL_KEYWORDS) :
                    HeaderName(s, DECL_KEYWORDS[k], TRUE) # <<>>}
    IN  IF hits = {} THEN <<>>
        ELSE HeaderName(s, DECL_KEYWORDS[Min(hits)], TRUE)

\* \b(K1|K2|...)\s+(name) searched in s: the name of the leftmost match
SearchKwName(s, kws) ==
    LET NameFor(i, kw) ==
            IF Boundary(s, i) /\ KwAt(s, i, kw) /\ i + Len(kw) <= Len(s)
               /\ s[i + Len(kw)] = " "
            THEN NameAt(s, SkipSpace(s, i + Len(kw))) ELSE <<>>
        hits == {i \in 1..Len(s) : \E k \in 1..Len(kws) : NameFor(i, kws[k]) # <<>>}
    IN  IF hits = {} THEN <<>>
        ELSE LET i == Min(hits)
                 k == Min({j \in 1..Len(kws) : NameFor(i, kws[j]) # <<>>})
             IN  NameFor(i, kws[k])

\* waittime_pattern: \bWaitTime\b searched in s
HasWaitTime(s) ==
    \E i \in 1..Len(s) :
        Boundary(s, i) /\ KwAt(s, i, kWAITTIME) /\ Boundary(s, i + Len(kWAITTIME))

\* the first index >= i of s that holds a double quote (Len(s)+1: none)
NextQuote(s, i) ==
    Min({j \in i..Len(s) : j >= 1 /\ s[j] = "\""} \cup {Len(s) + 1})

\* callbyvar_pattern: \bCallByVar\b[^\n"]*"([^"]+)" searched in s:
\* group 1 of the leftmost match, <<>> when no match
CallByVarArg(s) ==
    LET Arg(i) ==
            LET q1 == NextQuote(s, i + Len(kCALLBYVAR))
                q2 == NextQuote(s, q1 + 1)
            IN  IF Boundary(s, i) /\ KwAt(s, i, kCALLBYVAR)
                   /\ Boundary(s, i + Len(kCALLBYVAR))
                   /\ q1 <= Len(s) /\ q2 <= Len(s) /\ q2 > q1 + 1
                THEN SubSeq(s, q1 + 1, q2 - 1) ELSE <<>>
        hits == {i \in 1..Len(s) : Arg(i) # <<>>}
    IN  IF hits = {} THEN <<>> ELSE Arg(Min(hits))

\* stripped.split("!", 1)[0]
BeforeBang(s) == SubSeq(s, 1, Min({j \in 1..Len(s) : s[j] = "!"} \cup {Len(s) + 1}) - 1)

RECURSIVE RemoveStrings(_)
\* re.sub(r'"[^"]*"', "", s)
RemoveStrings(s) ==
    LET q1 == NextQuote(s, 1)
        q2 == NextQuote(s, q1 + 1)
    IN  IF q1 > Len(s) \/ q2 > Len(s) THEN s
        ELSE SubSeq(s, 1, q1 - 1) \o RemoveStrings(SubSeq(s, q2 + 1, Len(s)))

\* ident_pattern.findall(s), \b[^\W\d_]\w*\b: the identifiers of s, as a set
Idents(s) ==
    {SubSeq(s, i, WordEnd(s, i) - 1) :
        i \in {j \in 1..Len(s) : s[j] \in LetterChars
                                 /\ (j = 1 \/ s[j-1] \notin WordChars)}}

\* any(upper.startswith(k) for k in kws)
StartsWithAny(s, kws) == \E k \in kws : StartsWith(s, k)

----------------------------------------------------------------------------
(* ProcInfo and the two project-wide indexes.                               *)

\* ProcInfo.__init__
ProcInfo(module_name, file_path, proc_name) ==
    [module_name |-> module_name,
     file_path   |-> file_path,
     proc_name   |-> proc_name,
     fqname      |-> IF module_name # <<>>
                     THEN module_name \o ColonColon \o proc_name
                     ELSE proc_name,
     body_lines  |-> <<>>,
     code_lines  |-> 0]

\* ProcInfo.add_line
AddLine(pinfo, line) ==
    [pinfo EXCEPT !.body_lines = Append(@, line), !.code_lines = @ + 1]

\* the keys of a dict kept as a sequence of values with a fqname
RegKeys(reg) == {reg[i].fqname : i \in 1..Len(reg)}
RegIndex(reg, fq) == CHOOSE i \in 1..Len(reg) : reg[i].fqname = fq
RegGet(reg, fq) == reg[RegIndex(reg, fq)]
\* reg[pinfo.fqname] = pinfo: a key already there keeps its position
RegPut(reg, pinfo) ==
    IF pinfo.fqname \in RegKeys(reg)
    THEN [reg EXCEPT ![RegIndex(reg, pinfo.fqname)] = pinfo]
    ELSE Append(reg, pinfo)

\* d[k].add(v) on a defaultdict(set)
DictAdd(d, k, v) ==
    IF k \in DOMAIN d THEN [d EXCEPT ![k] = @ \cup {v}] ELSE d @@ (k :> {v})
\* the keys of a dict in insertion order, after a write to key k
KeyOrderAdd(order, k) ==
    IF \E i \in 1..Len(order) : order[i] = k THEN order ELSE Append(order, k)

EmptyDict == <<>>

\* no call-tree walk yet: no root left, no frame, nothing visited, no line
NoWalk == [roots |-> <<>>, stack |-> <<>>, visiting |-> {}, lines |-> <<>>]

----------------------------------------------------------------------------
(* analyze_file_first_pass, one line at a time.                             *)

\* the locals before the loop over the lines
ScanInit(path) ==
    [path                  |-> path,
     lineno                |-> 0,
     total_lines           |-> 0,
     code_lines            |-> 0,
     comment_lines         |-> 0,
     simple_complexity     |-> 1,
     depth_complexity      |-> 1,
     nesting_level         |-> 0,
     max_nesting           |-> 0,
     max_nesting_line      |-> NoLine,
     max_nesting_proc      |-> None,
     indent_pattern_score  |-> 0,
     current_module        |-> None,
     in_nostepin_module    |-> FALSE,
     current_proc          |-> None,
     proc_ids              |-> <<>>,
     variable_names        |-> {},
     var_declared          |-> {},
     var_uses              |-> {},
     waittime_lines        |-> <<>>,
     dynamic_call_prefixes |-> {}]

\* "End of procedure/function"
EndOfProc(s, line) ==
    IF IsEndProc(line) THEN [s EXCEPT !.current_proc = None] ELSE s

\* a block-closing keyword, were the level free to go below zero
CloseBlock_unfloored(s, upper) ==
    IF StartsWithAny(upper, CONTROL_END)
    THEN [s EXCEPT !.nesting_level = @ - 1] ELSE s

\* "Handle block-closing keywords first"
CloseBlock(s, upper) ==
    IF StartsWithAny(upper, CONTROL_END)
    THEN [s EXCEPT !.nesting_level = Max({@ - 1, 0})] ELSE s

\* "Then handle new nesting blocks"
OpenBlock(s, upper) ==
    IF StartsWithAny(upper, CONTROL_START)
    THEN [s EXCEPT
            !.simple_complexity = @ + 1,
            !.nesting_level = @ + 1,
            !.max_nesting = IF s.nesting_level + 1 > @
                            THEN s.nesting_level + 1 ELSE @,
            !.max_nesting_line = IF s.nesting_level + 1 > s.max_nesting
                                 THEN s.lineno ELSE @,
            !.max_nesting_proc = IF s.nesting_level + 1 > s.max_nesting
                                 THEN s.current_proc ELSE @,
            !.depth_complexity = @ + s.nesting_level + 1]
    ELSE s

\* "Other decision structures"
ExtraDecision(s, upper) ==
    IF StartsWithAny(upper, EXTRA_DECISION)
    THEN [s EXCEPT !.simple_complexity = @ + 1,
                   !.depth_complexity = @ + s.nesting_level]
    ELSE s

\* "Add line to current procedure body"
AddToProc(g, line) ==
    IF g.s.current_proc # None
    THEN [g EXCEPT !.reg = RegPut(@, AddLine(RegGet(@, g.s.current_proc), line))]
    ELSE g

\* the body line, were the line added before the end-of-procedure test
BodyLine_end_in_body(g, line, upper) ==
    [AddToProc(g, line) EXCEPT !.s = ExtraDecision(OpenBlock(CloseBlock(
                                         EndOfProc(@, line), upper), upper), upper)]

\* the part of the loop body after the header test: end of procedure,
\* complexity and nesting, and the body line
BodyLine(g, line, upper) ==
    AddToProc([g EXCEPT !.s = ExtraDecision(OpenBlock(CloseBlock(
                                  EndOfProc(@, line), upper), upper), upper)],
              line)

\* the counters and sets a code line updates before the header test
CountCode(s, line, line_no_strings, decl, io1, io2, prefix) ==
    [s EXCEPT
       !.code_lines = @ + 1,
       !.waittime_lines = IF HasWaitTime(line) THEN Append(@, s.lineno) ELSE @,
       !.var_uses = IF decl = <<>> THEN @ \cup Idents(line_no_strings) ELSE @,
       !.indent_pattern_score = @ + (Len(line) - Len(LStrip(line))),
       !.variable_names =
           @ \cup (IF decl # <<>> THEN {decl} ELSE {})
             \cup (IF io1 # <<>> THEN {io1} ELSE {})
             \cup (IF io2 # <<>> THEN {io2} ELSE {}),
       !.var_declared = IF decl # <<>> THEN @ \cup {decl} ELSE @,
       !.dynamic_call_prefixes =
           IF prefix # <<>> THEN @ \cup {Lower(prefix)} ELSE @]

\* "Detect new PROC/FUNC header": the procedure is registered
ProcHeader(g, pinfo) ==
    [s   |-> [g.s EXCEPT !.current_proc = pinfo.fqname,
                         !.proc_ids = KeyOrderAdd(@, pinfo.fqname)],
     reg |-> RegPut(g.reg, pinfo),
     n2f |-> DictAdd(g.n2f, Lower(pinfo.proc_name), pinfo.fqname)]

\* the header test: a header registers a procedure and ends the iteration
HeaderOrBody(g, line, upper, new_proc_name) ==
    IF new_proc_name # <<>>
    THEN ProcHeader(g, ProcInfo(IF g.s.current_module # None
                                THEN g.s.current_module ELSE g.s.path.stem,
                                g.s.path, new_proc_name))
    ELSE BodyLine(g, line, upper)

\* the loop body from "It's a code line" on
CodeLine(g, line, stripped, upper) ==
    HeaderOrBody([g EXCEPT !.s = CountCode(@, line,
                                           RemoveStrings(BeforeBang(stripped)),
                                           DeclName(line),
                                           SearchKwName(line, SET_RESET),
                                           SearchKwName(line, SETDO_RESETDO),
                                           Strip(CallByVarArg(line)))],
                 line, upper, NewProcName(line))

\* comment lines counted as comments but not as lines
CountedLine_comment_uncounted(g, stripped, line, upper) ==
    IF StartsWith(stripped, DecoStars) \/ StartsWith(stripped, DecoDashes)
    THEN g
    ELSE IF StartsWith(upper, Bang)
    THEN [g EXCEPT !.s.comment_lines = @ + 1]
    ELSE IF stripped = <<>>
    THEN [g EXCEPT !.s.total_lines = @ + 1]
    ELSE CodeLine([g EXCEPT !.s.total_lines = @ + 1], line, stripped, upper)

\* the loop body after the module bookkeeping: decorative lines, comments,
\* blank lines and code lines
CountedLine(g, stripped, line, upper) ==
    IF StartsWith(stripped, DecoStars) \/ StartsWith(stripped, DecoDashes)
    THEN g
    ELSE IF StartsWith(upper, Bang)
    THEN [g EXCEPT !.s.total_lines = @ + 1, !.s.comment_lines = @ + 1]
    ELSE IF stripped = <<>>
    THEN [g EXCEPT !.s.total_lines = @ + 1]
    ELSE CodeLine([g EXCEPT !.s.total_lines = @ + 1], line, stripped, upper)

\* the module bookkeeping, m being the name of the module the line opens
ModuleLine(g, line, stripped, upper, exclude, m) ==
    IF m # <<>> /\ exclude /\ Contains(upper, kNOSTEPIN)
    THEN [g EXCEPT !.s.current_module = m, !.s.in_nostepin_module = TRUE]
    ELSE IF g.s.in_nostepin_module
    THEN IF Contains(upper, kENDMODULE)
         THEN [g EXCEPT !.s.in_nostepin_module = FALSE, !.s.current_module = None]
         ELSE g
    ELSE CountedLine([g EXCEPT !.s.current_module =
                                  IF Contains(upper, kENDMODULE) THEN None
                                  ELSE IF m # <<>> THEN m ELSE @],
                     stripped, line, upper)

\* the name of the module a line opens outside a skipped module, <<>> when none
ModuleStart(s, line, upper) ==
    IF ~s.in_nostepin_module /\ Contains(upper, kMODULE)
    THEN ModuleName(line) ELSE <<>>

\* one iteration of "for lineno, raw_line in enumerate(lines, start=1)";
\* g = [s: the locals, reg: proc_registry, n2f: proc_name_to_fq]
ScanLine(g, raw_line, exclude) ==
    ModuleLine([g EXCEPT !.s.lineno = @ + 1], raw_line, Strip(raw_line),
               Upper(Strip(raw_line)), exclude,
               ModuleStart(g.s, raw_line, Upper(Strip(raw_line))))

RECURSIVE ScanLines(_, _, _)
\* the whole loop over the lines not yet read
ScanLines(g, lines, exclude) ==
    IF g.s.lineno >= Len(lines) THEN g
    ELSE ScanLines(ScanLine(g, lines[g.s.lineno + 1], exclude), lines, exclude)

\* the dict analyze_file_first_pass returns
FileStats(s) ==
    [file_path         |-> s.path,
     total_lines       |-> s.total_lines,
     code_lines        |-> s.code_lines,
     comment_lines     |-> s.comment_lines,
     simple_complexity |-> s.simple_complexity,
     depth_complexity  |-> Max({s.depth_complexity, s.simple_complexity}),
     max_nesting       |-> s.max_nesting,
     max_nesting_line  |-> s.max_nesting_line,
     max_nesting_proc  |-> s.max_nesting_proc,
     indent_sum        |-> s.indent_pattern_score,
     variable_names    |-> s.variable_names,
     proc_ids          |-> s.proc_ids,
     dynamic_prefixes  |-> s.dynamic_call_prefixes,
     waittime_lines    |-> s.waittime_lines,
     var_declared      |-> s.var_declared,
     var_uses          |-> s.var_uses]

----------------------------------------------------------------------------
(* build_call_graph.                                                        *)

\* the identifiers looked up without lowering them
StaticTargets_case_sensitive(line, n2f) ==
    UNION {n2f[ident] :
             ident \in {x \in Idents(RemoveStrings(BeforeBang(LStrip(line)))) :
                          x \in DOMAIN n2f}}

\* the static callees, were the bare names added in place of the
\* fully-qualified names the index has for them
StaticTargets_bare_names(line, n2f) ==
    {Lower(ident) :
        ident \in {x \in Idents(RemoveStrings(BeforeBang(LStrip(line)))) :
                     Lower(x) \in DOMAIN n2f}}

\* the static callees one body line adds
StaticTargets(line, n2f) ==
    UNION {n2f[Lower(ident)] :
             ident \in {x \in Idents(RemoveStrings(BeforeBang(LStrip(line)))) :
                          Lower(x) \in DOMAIN n2f}}

\* first-variant-only taking every variant of the first name
SelectVariants_every_fq(matching_proc_names, n2f, dynamic_all_variants) ==
    IF matching_proc_names = {} THEN {}
    ELSE IF dynamic_all_variants
    THEN UNION {n2f[proc_name] : proc_name \in matching_proc_names}
    ELSE n2f[FirstSorted(matching_proc_names)]

\* the names selected among the matching ones, and their fully-qualified forms
SelectVariants(matching_proc_names, n2f, dynamic_all_variants) ==
    IF matching_proc_names = {} THEN {}
    ELSE IF dynamic_all_variants
    THEN UNION {n2f[proc_name] : proc_name \in matching_proc_names}
    ELSE {FirstSorted(n2f[FirstSorted(matching_proc_names)])}

\* the callees a CallByVar prefix adds
ResolvePrefix(prefix_raw, n2f, dynamic_all_variants) ==
    IF prefix_raw = <<>> THEN {}
    ELSE SelectVariants({name \in DOMAIN n2f : StartsWith(name, Lower(prefix_raw))},
                        n2f, dynamic_all_variants)

\* the callees one body line adds through CallByVar
DynamicTargets(line, n2f, dynamic_all_variants) ==
    ResolvePrefix(Strip(CallByVarArg(LStrip(line))), n2f, dynamic_all_variants)

\* "Skip full-line comments and TPWrite lines"
SkippedBodyLine(line) ==
    LET upper == Upper(LStrip(line))
    IN  StartsWith(upper, Bang) \/ StartsWith(upper, kTPWRITE)

\* the callees one body line adds
LineTargets(line, n2f, dynamic_all_variants) ==
    IF SkippedBodyLine(line) THEN {}
    ELSE StaticTargets(line, n2f) \cup DynamicTargets(line, n2f, dynamic_all_variants)

\* the callees the body of one procedure adds
ProcTargets(pinfo, n2f, dynamic_all_variants) ==
    UNION {LineTargets(pinfo.body_lines[i], n2f, dynamic_all_variants) :
             i \in 1..Len(pinfo.body_lines)}

RECURSIVE BuildFrom(_, _, _, _, _)
\* the loop over proc_registry.items() from index i on; cg = [g: dict, order: keys]
BuildFrom(cg, reg, n2f, dynamic_all_variants, i) ==
    IF i > Len(reg) THEN cg
    ELSE LET targets == ProcTargets(reg[i], n2f, dynamic_all_variants)
             fq == reg[i].fqname
             next == IF targets = {} THEN cg
                     ELSE [g     |-> (fq :> targets) @@ cg.g,
                           order |-> KeyOrderAdd(cg.order, fq)]
         IN  BuildFrom(next, reg, n2f, dynamic_all_variants, i + 1)

BuildCallGraph(reg, n2f, dynamic_all_variants) ==
    BuildFrom([g |-> EmptyDict, order |-> <<>>], reg, n2f, dynamic_all_variants, 1)

----------------------------------------------------------------------------
(* compute_call_depths_from_main.                                           *)

IsMainName(p) == EndsWith(Lower(p), kQMAIN) \/ Lower(p) = kMAIN

\* every key of the call graph taken as a candidate
MainCandidates_every_key(order) == order

\* main_candidates, in the order of call_graph.keys()
MainCandidates(order) == SelectSeq(order, IsMainName)

\* call_graph.get(current, [])
Callees(cg, current) == IF current \in DOMAIN cg THEN cg[current] ELSE {}

\* depth[m] = 0 for each candidate, in order
SeedDepth(cands) == [m \in SeqRange(cands) |-> 0]

\* all the orders in which a set may be iterated
Orders(S) == {o \in [1..Cardinality(S) -> S] : SeqRange(o) = S}

RECURSIVE VisitCallees(_, _, _, _)
RECURSIVE VisitCallees_overwrite(_, _, _, _)
\* the depth written at every visit, the callee queued at the first one
VisitCallees_overwrite(d, q, callees, current_depth) ==
    IF callees = <<>> THEN [depth |-> d, queue |-> q]
    ELSE VisitCallees_overwrite(
             (Head(callees) :> current_depth + 1) @@ d,
             IF Head(callees) \notin DOMAIN d THEN Append(q, Head(callees)) ELSE q,
             Tail(callees), current_depth)

\* "for callee in ...": the callees in the order given
VisitCallees(d, q, callees, current_depth) ==
    IF callees = <<>> THEN [depth |-> d, queue |-> q]
    ELSE LET callee == Head(callees)
         IN  IF callee \notin DOMAIN d
             THEN VisitCallees((callee :> current_depth + 1) @@ d,
                               Append(q, callee), Tail(callees), current_depth)
             ELSE VisitCallees(d, q, Tail(callees), current_depth)

\* one iteration of "while queue", the callees of current iterated in order o
BfsIteration(cg, d, q, o) ==
    VisitCallees(d, Tail(q), o, d[Head(q)])

----------------------------------------------------------------------------
(* Identifier splitting and the naming score.                               *)

ALLOWED_SHORT_TOKENS ==
    {<<"d","i">>, <<"d","o">>, <<"g","i">>, <<"g","o">>, <<"a","i">>,
     <<"a","o">>, <<"i","n">>, <<"o","n">>, <<"p">>, <<"t">>, <<"w">>,
     <<"l">>, <<"n">>, <<"s">>, <<"v","i","a">>, <<"V","i","a">>, <<"m">>,
     <<"b","o","o","l">>, <<"p","l","c">>, <<"p","r","e">>,
     <<"o","f","f">>, <<"w","i","t","h">>, <<"f","r","o","m">>, <<"x">>,
     <<"y">>, <<"z">>, <<"r","y">>, <<"r","z">>, <<"r","x">>,
     <<"d","i","r">>, <<"c","a","l","c">>, <<"p","r","o","g">>,
     <<"p","e","r","s">>, <<"i">>, <<"j">>, <<"k">>, <<"a">>, <<"b">>,
     <<"o","k">>, <<"a","t">>, <<"f","o","r">>, <<"o","v","e","r">>,
     <<"u","n","d","e","r">>, <<"f","r","o","n","t">>,
     <<"b","a","c","k">>, <<"c","c">>, <<"c","t">>, <<"v">>}

\* the words the lexical database knows (wn.synsets(w) is not empty)
WordNet ==
    {<<"s","e","t">>, <<"a","x","i","s">>, <<"p","a","r","s","e","r">>,
     <<"m","a","i","n">>, <<"d","o","o","r">>, <<"o","p","e","n">>,
     <<"u","p">>}

kAXIS == <<"a","x","i","s">>
AXIS_WORDS == {<<"x">> \o kAXIS, <<"y">> \o kAXIS, <<"z">> \o kAXIS}

RECURSIVE CamelFrom(_, _, _, _)
\* camel_split's loop from index i on
CamelFrom(s, i, result, current) ==
    IF i > Len(s) THEN Append(result, current)
    ELSE LET ch == s[i]
             last == current[Len(current)]
         IN  IF ch \in IsUpperChars
             THEN IF last \notin IsUpperChars
                  THEN CamelFrom(s, i + 1, Append(result, current), <<ch>>)
                  ELSE CamelFrom(s, i + 1, result, Append(current, ch))
             ELSE IF last \in IsUpperChars /\ Len(current) > 1
                  THEN CamelFrom(s, i + 1,
                                 Append(result, SubSeq(current, 1, Len(current) - 1)),
                                 <<last, ch>>)
                  ELSE CamelFrom(s, i + 1, result, Append(current, ch))

camel_split(s) == IF s = <<>> THEN <<>> ELSE CamelFrom(s, 2, <<>>, <<s[1]>>)

RECURSIVE SplitRuns(_, _)
\* the non-empty pieces of s between the characters of seps
SplitRuns(s, seps) ==
    LET start == {j \in 1..Len(s) : s[j] \notin seps}
    IN  IF start = {} THEN <<>>
        ELSE LET a == Min(start)
                 stop == {j \in a..Len(s) : s[j] \in seps}
                 b == IF stop = {} THEN Len(s) + 1 ELSE Min(stop)
             IN  <<SubSeq(s, a, b - 1)>> \o SplitRuns(SubSeq(s, b, Len(s)), seps)

RECURSIVE Flatten(_)
Flatten(ss) == IF ss = <<>> THEN <<>> ELSE Head(ss) \o Flatten(Tail(ss))

\* the tokens of one camel-split piece
AxisTokens(sub) ==
    LET s == Lower(sub)
    IN  IF s \in AXIS_WORDS THEN <<<<s[1]>>, kAXIS>> ELSE <<s>>

split_identifier(name) ==
    LET parts == SplitRuns(name, {"_"})
        ChunksOf(part) == SplitRuns(part, DigitChars \cup {"_"})
        TokensOfChunk(chunk) ==
            LET subs == camel_split(chunk)
            IN  Flatten([k \in 1..Len(subs) |-> AxisTokens(subs[k])])
        TokensOfPart(part) ==
            LET chunks == ChunksOf(part)
            IN  Flatten([k \in 1..Len(chunks) |-> TokensOfChunk(chunks[k])])
    IN  Flatten([k \in 1..Len(parts) |-> TokensOfPart(parts[k])])

\* is_dictionary_word's answer with the cache as it is
is_dictionary_word(cache, word) ==
    LET w == Lower(word)
    IN  IF w \in DOMAIN cache THEN cache[w] ELSE w \in WordNet

\* the tokens variable_goodness hands to is_dictionary_word
LookedUp(tokens) ==
    {Lower(tokens[k]) : k \in {j \in 1..Len(tokens) :
        Lower(tokens[j]) \notin ALLOWED_SHORT_TOKENS /\ Len(tokens[j]) >= 3}}

\* a word of any length counted as good
IsGoodToken_any_length(cache, t) ==
    Lower(t) \in ALLOWED_SHORT_TOKENS \/ is_dictionary_word(cache, Lower(t))

\* whether variable_goodness counts the token as a word
IsGoodToken(cache, t) ==
    LET t_norm == Lower(t)
    IN  IF t_norm \in ALLOWED_SHORT_TOKENS THEN TRUE
        ELSE IF Len(t_norm) < 3 THEN FALSE
        ELSE is_dictionary_word(cache, t_norm)

\* _dictionary_cache after the lookups of a set of lowercase words
CacheAfter(cache, words) ==
    [w \in DOMAIN cache \cup words |-> is_dictionary_word(cache, w)]

\* how often is_dictionary_word has called wn.synsets with word w
CallCount(calls, w) == IF w \in DOMAIN calls THEN calls[w] ELSE 0

\* the calls of wn.synsets after one more with word w
CallsWith(calls, w) ==
    [x \in DOMAIN calls \cup {w} |-> CallCount(calls, x) + (IF x = w THEN 1 ELSE 0)]

\* the calls of wn.synsets after the lookups of a set of lowercase words
CallsAfter(calls, cache, words) ==
    [x \in DOMAIN calls \cup (words \ DOMAIN cache) |->
        CallCount(calls, x) + (IF x \in words \ DOMAIN cache THEN 1 ELSE 0)]

\* is_dictionary_word, were the answer of wn.synsets not kept
DictionaryWordCall_unmemoized(cache, calls, word) ==
    IF Lower(word) \in DOMAIN cache
    THEN [result |-> cache[Lower(word)], cache |-> cache, calls |-> calls]
    ELSE [result |-> Lower(word) \in WordNet,
          cache  |-> cache,
          calls  |-> CallsWith(calls, Lower(word))]

\* one call of is_dictionary_word: what it returns, and _dictionary_cache and
\* the calls of wn.synsets after it
DictionaryWordCall(cache, calls, word) ==
    IF Lower(word) \in DOMAIN cache
    THEN [result |-> cache[Lower(word)], cache |-> cache, calls |-> calls]
    ELSE [result |-> Lower(word) \in WordNet,
          cache  |-> CacheAfter(cache, {Lower(word)}),
          calls  |-> CallsWith(calls, Lower(word))]

----------------------------------------------------------------------------
(* Exact fractions, for the floats of the scoring formulas.                  *)

RECURSIVE GCD(_, _)
GCD(a, b) == IF b = 0 THEN a ELSE GCD(b, a % b)
Abs(x) == IF x < 0 THEN -x ELSE x

\* n/d in lowest terms, d > 0
Frac(n, d) ==
    [num |-> (IF d < 0 THEN -1 ELSE 1) * (n \div GCD(Abs(n), Abs(d))),
     den |-> Abs(d) \div GCD(Abs(n), Abs(d))]
FInt(n) == [num |-> n, den |-> 1]
FAdd(a, b) == Frac(a.num * b.den + b.num * a.den, a.den * b.den)
FNeg(a) == [num |-> -a.num, den |-> a.den]
FSub(a, b) == FAdd(a, FNeg(b))
FMul(a, b) == Frac(a.num * b.num, a.den * b.den)
\* a < b: by the numerators over one denominator, else by the whole parts,
\* else by the fractional parts
FLess(a, b) ==
    IF a.den = b.den THEN a.num < b.num
    ELSE IF a.num \div a.den # b.num \div b.den
         THEN a.num \div a.den < b.num \div b.den
         ELSE (a.num % a.den) * b.den < (b.num % b.den) * a.den
FLeq(a, b) == ~FLess(b, a)
FMin(a, b) == IF FLess(b, a) THEN b ELSE a
FMax(a, b) == IF FLess(a, b) THEN b ELSE a

RECURSIVE FSum(_)
FSum(fs) == IF fs = <<>> THEN FInt(0) ELSE FAdd(Head(fs), FSum(Tail(fs)))

----------------------------------------------------------------------------
(* The naming score, the comment score and compute_file_scores.             *)

\* variable_goodness on the tokens of a name: good tokens / tokens, 0.0 for
\* no token
TokenGoodness(cache, tokens) ==
    IF tokens = <<>> THEN FInt(0)
    ELSE Frac(Cardinality({k \in 1..Len(tokens) : IsGoodToken(cache, tokens[k])}),
              Len(tokens))

variable_goodness(cache, name) == TokenGoodness(cache, split_identifier(name))

\* the tokens variable_goodness adds to bad_tokens
BadTokens(cache, tokens) ==
    {Lower(tokens[k]) : k \in {j \in 1..Len(tokens) :
                                 ~IsGoodToken(cache, tokens[j])}}

RECURSIVE SumValues(_, _)
\* the sum of g over its domain, one term per distinct value
SumValues(g, values) ==
    IF values = {} THEN FInt(0)
    ELSE FAdd(FMul(CHOOSE v \in values : TRUE,
                   FInt(Cardinality({x \in DOMAIN g :
                                      g[x] = CHOOSE v \in values : TRUE}))),
              SumValues(g, values \ {CHOOSE v \in values : TRUE}))
SumOf(g) == SumValues(g, {g[x] : x \in DOMAIN g})

\* sum(scores) of variable_name_score
SumGoodness(cache, names) ==
    SumOf([v \in names |-> variable_goodness(cache, v)])

\* variable_name_score: (avg_score, bad_tokens), and the cache it leaves
variable_name_score(cache, all_variables) ==
    [score      |-> IF all_variables = {} THEN FInt(1)
                    ELSE FMul(SumGoodness(cache, all_variables),
                              Frac(1, Cardinality(all_variables))),
     bad_tokens |-> UNION {BadTokens(cache, split_identifier(v)) :
                             v \in all_variables},
     cache      |-> CacheAfter(cache,
                       UNION {LookedUp(split_identifier(v)) : v \in all_variables})]

\* the score without "if comment_ratio >= 0.60: return 0.0"
comment_score_no_upper(comment_ratio) ==
    IF FLeq(comment_ratio, FInt(0)) THEN FInt(0)
    ELSE IF FLess(comment_ratio, Frac(6, 100))
    THEN FMul(comment_ratio, Frac(100, 6))
    ELSE IF FLeq(comment_ratio, Frac(25, 100)) THEN FInt(1)
    ELSE FSub(FInt(1), FMul(FSub(comment_ratio, Frac(25, 100)), Frac(100, 35)))

\* comment_score
comment_score(comment_ratio) ==
    IF FLeq(comment_ratio, FInt(0)) THEN FInt(0)
    ELSE IF FLess(comment_ratio, Frac(6, 100))
    THEN FMul(comment_ratio, Frac(100, 6))
    ELSE IF FLeq(comment_ratio, Frac(25, 100)) THEN FInt(1)
    ELSE IF FLeq(Frac(60, 100), comment_ratio) THEN FInt(0)
    ELSE FSub(FInt(1), FMul(FSub(comment_ratio, Frac(25, 100)), Frac(100, 35)))

\* the floor without the cap
Capped_floor_only(x, hi) == FMax(FInt(0), x)
\* min(hi, max(0.0, x)) and min(hi, x)
Capped(x, hi) == FMin(FInt(hi), FMax(FInt(0), x))
\* the score capped at 100 only
Clamp100_upper_only(x) == FMin(FInt(100), x)
\* max(0.0, min(100.0, x))
Clamp100(x) == FMax(FInt(0), FMin(FInt(100), x))

\* file_to_procs[path]: the ProcInfos of the registry defined in path, in order
ProcsOf(reg, path) == SelectSeq(reg, LAMBDA p : p.file_path = path)

\* MAIN counted like any other procedure
IsUnreachable_main_counted(p, call_depths, dynamic_prefixes) ==
    /\ p.fqname \notin DOMAIN call_depths
    /\ ~\E prefix \in dynamic_prefixes : StartsWith(Lower(p.proc_name), prefix)

\* "MAIN is never counted as unreachable" and the dynamic prefixes:
\* whether the loop over procs counts p as unreachable
IsUnreachable(p, call_depths, dynamic_prefixes) ==
    LET proc_lower == Lower(p.proc_name)
    IN  /\ p.fqname \notin DOMAIN call_depths
        /\ proc_lower # kMAIN
        /\ ~\E prefix \in dynamic_prefixes : StartsWith(proc_lower, prefix)

\* the figures compute_file_scores takes from the procedures of one file
ProcFigures(procs, call_depths, dynamic_prefixes) ==
    [proc_count         |-> Len(procs),
     biggest_proc_lines |-> Max({0} \cup {procs[i].code_lines : i \in 1..Len(procs)}),
     proc_line_sum      |-> SumOf([i \in 1..Len(procs) |->
                                     FInt(procs[i].code_lines)]).num,
     max_call_depth     |->
         Max({0} \cup {call_depths[procs[i].fqname] :
                         i \in {j \in 1..Len(procs) :
                                  procs[j].fqname \in DOMAIN call_depths}}),
     unreachable        |->
         SelectSeq(procs, LAMBDA p : IsUnreachable(p, call_depths, dynamic_prefixes))]

\* comment_ratio
CommentRatio(fs) ==
    IF fs.total_lines > 0 THEN Frac(fs.comment_lines, fs.total_lines) ELSE FInt(0)

\* biggest_proc_ratio
BiggestProcRatio(fs, pf) ==
    Frac(pf.biggest_proc_lines,
         IF fs.code_lines > 0 THEN fs.code_lines ELSE Max({pf.proc_line_sum, 1}))

\* unused_vars
UnusedVars(fs, project_used_vars) ==
    Sorted({name \in fs.var_declared : name \notin project_used_vars})

\* the nine penalties
Penalties(fs, pf, biggest_proc_ratio, unused_var_count, bad_word_count, cscore) ==
    [complexity_penalty |-> Capped(FInt((fs.simple_complexity - 50) * 1), 30),
     nesting_penalty    |-> Capped(FInt((fs.max_nesting - 8) * 5), 30),
     call_depth_penalty |-> Capped(FInt((pf.max_call_depth - 3) * 15), 50),
     proc_count_penalty |-> IF pf.proc_count > 20
                            THEN FMin(FInt(20), FInt((pf.proc_count - 20) * 1))
                            ELSE FInt(0),
     proc_size_penalty  |->
         IF FLess(Frac(60, 100), biggest_proc_ratio) /\ fs.total_lines > 300
         THEN FMul(FSub(biggest_proc_ratio, Frac(60, 100)), FInt(50))
         ELSE FInt(0),
     total_line_penalty |->
         IF fs.total_lines > 600 /\ pf.proc_count > 1
         THEN FMin(FInt(20), FMul(FInt(fs.total_lines - 600), Frac(5, 100)))
         ELSE FInt(0),
     unused_var_penalty |-> FMin(FInt(20), FMul(FInt(unused_var_count), Frac(5, 10))),
     bad_word_penalty   |-> FMin(FInt(20), FMul(FInt(bad_word_count), Frac(5, 10))),
     comment_penalty    |-> FSub(FInt(5), FMul(cscore, Frac(5, 100)))]

\* total_penalty
TotalPenalty(pen) ==
    FSum(<<pen.complexity_penalty, pen.nesting_penalty, pen.call_depth_penalty,
           pen.proc_count_penalty, pen.proc_size_penalty, pen.total_line_penalty,
           pen.bad_word_penalty, pen.unused_var_penalty, pen.comment_penalty>>)

\* the dict compute_file_scores appends to results
ScoreRecord(fs, comment_ratio, pf, vs, unused_vars, biggest_proc_ratio, pen) ==
    [file_path           |-> fs.file_path,
     total_lines         |-> fs.total_lines,
     code_lines          |-> fs.code_lines,
     comment_lines       |-> fs.comment_lines,
     comment_ratio       |-> FMul(FInt(100), comment_ratio),
     simple_complexity   |-> fs.simple_complexity,
     depth_complexity    |-> fs.depth_complexity,
     max_nesting         |-> fs.max_nesting,
     max_nesting_line    |-> fs.max_nesting_line,
     max_nesting_proc    |-> fs.max_nesting_proc,
     proc_count          |-> pf.proc_count,
     biggest_proc_lines  |-> pf.biggest_proc_lines,
     biggest_proc_ratio  |-> biggest_proc_ratio,
     max_call_depth      |-> pf.max_call_depth,
     variable_count      |-> Cardinality(fs.variable_names),
     variable_name_score |-> FMul(vs.score, FInt(100)),
     readability_score   |-> Clamp100(FSub(FInt(100), TotalPenalty(pen))),
     unreachable_count   |-> Len(pf.unreachable),
     unreachable_procs   |-> [i \in 1..Len(pf.unreachable) |->
                                 pf.unreachable[i].proc_name],
     bad_words           |-> Sorted(vs.bad_tokens),
     waittime_lines      |-> fs.waittime_lines,
     unused_vars         |-> unused_vars,
     unused_var_count    |-> Len(unused_vars),
     complexity_penalty  |-> pen.complexity_penalty,
     nesting_penalty     |-> pen.nesting_penalty,
     call_depth_penalty  |-> pen.call_depth_penalty,
     proc_count_penalty  |-> pen.proc_count_penalty,
     proc_size_penalty   |-> pen.proc_size_penalty,
     total_line_penalty  |-> pen.total_line_penalty,
     bad_word_penalty    |-> pen.bad_word_penalty,
     unused_var_penalty  |-> pen.unused_var_penalty,
     comment_penalty     |-> pen.comment_penalty,
     total_penalty       |-> TotalPenalty(pen)]

\* one iteration of "for fs in file_stats_list", the figures being computed
ScoreWith(fs, comment_ratio, pf, vs, unused_vars) ==
    [res   |-> ScoreRecord(fs, comment_ratio, pf, vs, unused_vars,
                           BiggestProcRatio(fs, pf),
                           Penalties(fs, pf, BiggestProcRatio(fs, pf),
                                     Len(unused_vars), Cardinality(vs.bad_tokens),
                                     FMul(comment_score(comment_ratio), FInt(100)))),
     cache |-> vs.cache]

\* the record compute_file_scores appends for one file, and the cache it leaves
FileScore(fs, reg, call_depths, dynamic_prefixes, project_used_vars, cache) ==
    ScoreWith(fs, CommentRatio(fs),
              ProcFigures(ProcsOf(reg, fs.file_path), call_depths, dynamic_prefixes),
              variable_name_score(cache, fs.variable_names),
              UnusedVars(fs, project_used_vars))

RECURSIVE ScoreFrom(_, _, _, _, _, _, _, _)
RECURSIVE ScoreNext(_, _, _, _, _, _, _, _)
\* "for fs in file_stats_list" from index i on
ScoreFrom(stats, i, results, reg, call_depths, dynamic_prefixes, used, cache) ==
    IF i > Len(stats) THEN [results |-> results, cache |-> cache]
    ELSE ScoreNext(stats, i, results, reg, call_depths, dynamic_prefixes, used,
                   FileScore(stats[i], reg, call_depths, dynamic_prefixes, used, cache))

\* results.append(...) and the next iteration
ScoreNext(stats, i, results, reg, call_depths, dynamic_prefixes, used, r) ==
    ScoreFrom(stats, i + 1, Append(results, r.res), reg, call_depths,
              dynamic_prefixes, used, r.cache)

compute_file_scores(stats, reg, call_depths, dynamic_prefixes, used, cache) ==
    ScoreFrom(stats, 1, <<>>, reg, call_depths, dynamic_prefixes, used, cache)

----------------------------------------------------------------------------
(* analyze_folder: the three passes as a state machine.                     *)

NoPath == [dir |-> "", stem |-> <<>>]

\* what wn.synsets("test") and the two nltk.download calls can come to: the
\* data is there; it is not, and the download brings it, raises, or returns
\* without it
WordNetOutcomes(o) ==
    IF o = "present" THEN {"found"} ELSE {"downloaded", "raised", "returned"}

\* main and run_analysis: ensure_wordnet(), which neither looks at what
\* nltk.download returned nor asks wn again
ensure_wordnet ==
    /\ pc = "startup"
    /\ \E outcome \in WordNetOutcomes(oracle) :
          /\ oracle' = IF outcome = "downloaded" THEN "present" ELSE oracle
          /\ pc' = IF outcome = "raised" THEN "failed_startup" ELSE "first_pass"
    /\ UNCHANGED <<files, exclude_nostepin, dynamic_all, todo, scan, proc_registry,
                   proc_name_to_fq, file_stats_list, call_graph, cg_order, depth,
                   queue, file_results, all_dynamic_prefixes, dictionary_cache,
                   summary, encoding, synsets_calls, walk>>

\* whether path.open(encoding="utf-8") or, after its UnicodeDecodeError,
\* path.open(encoding="cp1252") reads the bytes
Decodes(enc) == enc \in {"utf-8", "cp1252"}

\* "for file in root_folder.rglob(...)": the next file is opened and the
\* locals of analyze_file_first_pass are set; the UnicodeDecodeError of the
\* second open leaves analyze_file_first_pass and analyze_folder
StartFile ==
    /\ pc = "first_pass"
    /\ todo # <<>>
    /\ IF Decodes(encoding[Head(todo)])
       THEN scan' = ScanInit(Head(todo)) /\ pc' = "scanning"
       ELSE scan' = scan /\ pc' = "failed_decode"
    /\ UNCHANGED <<files, exclude_nostepin, dynamic_all, todo, proc_registry,
                   proc_name_to_fq, file_stats_list, call_graph, cg_order, depth,
                   queue, file_results, all_dynamic_prefixes, dictionary_cache,
                   summary, oracle, encoding, synsets_calls, walk>>

\* one line of the file is read and classified
ReadLine ==
    /\ pc = "scanning"
    /\ scan.lineno < Len(files[scan.path])
    /\ \E g \in {ScanLine([s |-> scan, reg |-> proc_registry, n2f |-> proc_name_to_fq],
                           files[scan.path][scan.lineno + 1], exclude_nostepin)} :
          /\ scan' = g.s
          /\ proc_registry' = g.reg
          /\ proc_name_to_fq' = g.n2f
    /\ UNCHANGED <<files, exclude_nostepin, dynamic_all, pc, todo, file_stats_list,
                   call_graph, cg_order, depth, queue, file_results,
                   all_dynamic_prefixes, dictionary_cache,
                   summary, oracle, encoding, synsets_calls, walk>>

\* analyze_file_first_pass returns; analyze_folder keeps the record
EndFile ==
    /\ pc = "scanning"
    /\ scan.lineno = Len(files[scan.path])
    /\ file_stats_list' = Append(file_stats_list, FileStats(scan))
    /\ all_dynamic_prefixes' = all_dynamic_prefixes \cup scan.dynamic_call_prefixes
    /\ todo' = Tail(todo)
    /\ scan' = ScanInit(NoPath)
    /\ pc' = "first_pass"
    /\ UNCHANGED <<files, exclude_nostepin, dynamic_all, proc_registry,
                   proc_name_to_fq, call_graph, cg_order, depth, queue,
                   file_results, dictionary_cache,
                   summary, oracle, encoding, synsets_calls, walk>>

\* the call-graph pass, were it to start while files are still to be scanned
CallGraphPass_early ==
    /\ pc = "first_pass"
    /\ \E cg \in {BuildCallGraph(proc_registry, proc_name_to_fq, dynamic_all)} :
          /\ call_graph' = cg.g
          /\ cg_order' = cg.order
    /\ pc' = "depths"
    /\ UNCHANGED <<files, exclude_nostepin, dynamic_all, todo, scan, proc_registry,
                   proc_name_to_fq, file_stats_list, depth, queue, file_results,
                   all_dynamic_prefixes, dictionary_cache,
                   summary, oracle, encoding, synsets_calls, walk>>

\* SECOND PASS: build_call_graph
CallGraphPass ==
    /\ pc = "first_pass"
    /\ todo = <<>>
    /\ \E cg \in {BuildCallGraph(proc_registry, proc_name_to_fq, dynamic_all)} :
          /\ call_graph' = cg.g
          /\ cg_order' = cg.order
    /\ pc' = "depths"
    /\ UNCHANGED <<files, exclude_nostepin, dynamic_all, todo, scan, proc_registry,
                   proc_name_to_fq, file_stats_list, depth, queue, file_results,
                   all_dynamic_prefixes, dictionary_cache,
                   summary, oracle, encoding, synsets_calls, walk>>

\* compute_call_depths_from_main up to the loop: the candidates are seeded
DepthSeed ==
    /\ pc = "depths"
    /\ \E main_candidates \in {MainCandidates(cg_order)} :
          /\ depth' = SeedDepth(main_candidates)
          /\ queue' = main_candidates
          /\ pc' = IF main_candidates = <<>> THEN "scores" ELSE "bfs"
    /\ UNCHANGED <<files, exclude_nostepin, dynamic_all, todo, scan, proc_registry,
                   proc_name_to_fq, file_stats_list, call_graph, cg_order,
                   file_results, all_dynamic_prefixes, dictionary_cache,
                   summary, oracle, encoding, synsets_calls, walk>>

\* one iteration of "while queue"; the callees are a set, iterated in some order
BfsStep ==
    /\ pc = "bfs"
    /\ queue # <<>>
    /\ \E o \in Orders(Callees(call_graph, Head(queue))) :
          \E r \in {BfsIteration(call_graph, depth, queue, o)} :
              /\ depth' = r.depth
              /\ queue' = r.queue
              /\ pc' = IF r.queue = <<>> THEN "scores" ELSE "bfs"
    /\ UNCHANGED <<files, exclude_nostepin, dynamic_all, todo, scan, proc_registry,
                   proc_name_to_fq, file_stats_list, call_graph, cg_order,
                   file_results, all_dynamic_prefixes, dictionary_cache,
                   summary, oracle, encoding, synsets_calls, walk>>

\* project_used_vars of analyze_folder
ProjectUsedVars(stats) == UNION {stats[i].var_uses : i \in 1..Len(stats)}

\* whether compute_file_scores comes to wn.synsets: a name of a file has a
\* token that is handed to is_dictionary_word and is not in the cache
NeedsLookup(stats, cache) ==
    \E i \in 1..Len(stats) :
        \E name \in stats[i].variable_names :
            LookedUp(split_identifier(name)) \ DOMAIN cache # {}

\* the words a first call of wn.synsets in compute_file_scores can be made
\* with: the first token not in the cache of a name of the first file that
\* has one, the names of a file being a set
FirstLookups(stats, cache) ==
    LET need(name) == {k \in 1..Len(split_identifier(name)) :
                          /\ Lower(split_identifier(name)[k]) \notin ALLOWED_SHORT_TOKENS
                          /\ Len(split_identifier(name)[k]) >= 3
                          /\ Lower(split_identifier(name)[k]) \notin DOMAIN cache}
        first == Min({i \in 1..Len(stats) :
                        \E name \in stats[i].variable_names : need(name) # {}})
    IN  {Lower(split_identifier(name)[Min(need(name))]) :
            name \in {n \in stats[first].variable_names : need(n) # {}}}

\* THIRD PASS: compute_file_scores
ScorePass ==
    /\ pc = "scores"
    /\ IF oracle = "absent" /\ NeedsLookup(file_stats_list, dictionary_cache)
       THEN /\ pc' = "failed_lookup"
            /\ \E w \in FirstLookups(file_stats_list, dictionary_cache) :
                  synsets_calls' = CallsWith(synsets_calls, w)
            /\ UNCHANGED <<file_results, dictionary_cache>>
       ELSE /\ \E r \in {compute_file_scores(file_stats_list, proc_registry, depth,
                                             all_dynamic_prefixes,
                                             ProjectUsedVars(file_stats_list),
                                             dictionary_cache)} :
                 /\ file_results' = r.results
                 /\ dictionary_cache' = r.cache
                 /\ synsets_calls' = CallsAfter(synsets_calls, dictionary_cache,
                                                DOMAIN r.cache)
            /\ pc' = "done"
    /\ UNCHANGED <<files, exclude_nostepin, dynamic_all, todo, scan, proc_registry,
                   proc_name_to_fq, file_stats_list, call_graph, cg_order, depth,
                   queue, all_dynamic_prefixes,
                   summary, oracle, encoding, walk>>

----------------------------------------------------------------------------
(* The project score, as the command line and the window report it.         *)

\* a place of the summary: nothing written yet, written without a score, or
\* written with the number the format shows
NotReported == [state |-> "unset", value |-> FInt(0)]
NoScore     == [state |-> "none", value |-> FInt(0)]
Reported(v) == [state |-> "score", value |-> v]
NoSummary ==
    [cli |-> NotReported, label |-> NotReported, clipboard |-> NotReported]

\* [res["readability_score"] for res in file_results]
Scores(results) == [i \in 1..Len(results) |-> results[i].readability_score]

\* all_scores.sort()
SortScores(s) ==
    [k \in 1..Len(s) |->
        s[CHOOSE i \in 1..Len(s) :
            Cardinality({j \in 1..Len(s) :
                FLess(s[j], s[i]) \/ (s[j] = s[i] /\ j < i)}) = k - 1]]

\* sum(scores) / len(scores)
Mean(s) == FMul(FSum(s), Frac(1, Len(s)))

\* min(raw_avg_score, worst_avg + 40.0), worst_scores = all_scores[:3]
CappedAvg(s) ==
    FMin(Mean(s),
         FAdd(Mean(SubSeq(SortScores(s), 1, Min({3, Len(s)}))), FInt(40)))

\* 10 ** digits
Pow10(digits) == IF digits = 0 THEN 1 ELSE 10

\* f"{x:.<digits>f}": the nearest multiple of 10 ** -digits, a tie to the
\* even one
FormatF(x, digits) ==
    LET n == (x.num * Pow10(digits)) \div x.den
        r == (x.num * Pow10(digits)) % x.den
    IN  Frac(IF 2 * r > x.den \/ (2 * r = x.den /\ n % 2 = 1) THEN n + 1 ELSE n,
             Pow10(digits))

\* "Average Code Score" of print_results
PrintedScore(results) ==
    IF results = <<>> THEN NoScore
    ELSE Reported(FormatF(CappedAvg(Scores(results)), 0))

\* total_files_penalty of update_summary
TotalFilesPenalty(total_files) ==
    IF total_files > 10 THEN Min({30, total_files - 10}) ELSE 0

\* "Project code score" of update_summary
LabelScore(results) ==
    IF results = <<>> THEN NoScore
    ELSE Reported(FormatF(FSub(CappedAvg(Scores(results)),
                               FInt(TotalFilesPenalty(Len(results)))), 0))

\* "Avg code score" of copy_summary_to_clipboard
ClipboardScore(results) ==
    IF results = <<>> THEN NoScore
    ELSE Reported(FormatF(Mean(Scores(results)), 1))

\* main: print_results(file_results, project_unique_var_count)
print_results ==
    /\ pc = "done"
    /\ summary.cli = NotReported
    /\ summary' = [summary EXCEPT !.cli = PrintedScore(file_results)]
    /\ UNCHANGED <<files, exclude_nostepin, dynamic_all, pc, todo, scan,
                   proc_registry, proc_name_to_fq, file_stats_list, call_graph,
                   cg_order, depth, queue, file_results, all_dynamic_prefixes,
                   dictionary_cache, oracle, encoding, synsets_calls, walk>>

\* run_analysis: self.current_results = results; self.update_summary()
update_summary ==
    /\ pc = "done"
    /\ summary.label = NotReported
    /\ summary' = [summary EXCEPT !.label = LabelScore(file_results)]
    /\ UNCHANGED <<files, exclude_nostepin, dynamic_all, pc, todo, scan,
                   proc_registry, proc_name_to_fq, file_stats_list, call_graph,
                   cg_order, depth, queue, file_results, all_dynamic_prefixes,
                   dictionary_cache, oracle, encoding, synsets_calls, walk>>

\* the button "copy summary"
copy_summary_to_clipboard ==
    /\ pc = "done"
    /\ summary.clipboard = NotReported
    /\ summary' = [summary EXCEPT !.clipboard = ClipboardScore(file_results)]
    /\ UNCHANGED <<files, exclude_nostepin, dynamic_all, pc, todo, scan,
                   proc_registry, proc_name_to_fq, file_stats_list, call_graph,
                   cg_order, depth, queue, file_results, all_dynamic_prefixes,
                   dictionary_cache, oracle, encoding, synsets_calls, walk>>

----------------------------------------------------------------------------
(* The folders analysed: lines, files and projects.                         *)

\* PROC Main()
LProcMain == <<"P","R","O","C"," ","M","a","i","n","(",")">>
\* PROC main()
LProcLowerMain == <<"P","R","O","C"," ","m","a","i","n","(",")">>
\* PROC A()
LProcA == <<"P","R","O","C"," ","A","(",")">>
\* PROC B()
LProcB == <<"P","R","O","C"," ","B","(",")">>
\* PROC Ab()
LProcAb == <<"P","R","O","C"," ","A","b","(",")">>
\* ENDPROC
LEndProc == <<"E","N","D","P","R","O","C">>
\* MODULE M1
LModuleM1 == <<"M","O","D","U","L","E"," ","M","1">>
\* MODULE M2
LModuleM2 == <<"M","O","D","U","L","E"," ","M","2">>
\* ENDMODULE
LEndModule == <<"E","N","D","M","O","D","U","L","E">>
\*   A;
LCallA == <<" "," ","A",";">>
\*   B;
LCallB == <<" "," ","B",";">>
\*   main;
LCallMain == <<" "," ","m","a","i","n",";">>
\* ! A;
LCommentA == <<"!"," ","A",";">>
\* TPWrite A
LTPWriteA == <<"T","P","W","r","i","t","e"," ","A">>
\* CallByVar "A",1
LCallByVarA == <<"C","a","l","l","B","y","V","a","r"," ","\"","A","\"",",",
    "1">>
\* b; ! A
LCallLowerB == <<"b",";"," ","!"," ","A">>
\* x:="B";
LQuotedB == <<"x",":","=","\"","B","\"",";">>
\* x:="!";A;
LBangInString == <<"x",":","=","\"","!","\"",";","A",";">>

\* a path of the folder
Path(stem) == [dir |-> "proj", stem |-> stem]
F1 == Path(<<"f","1">>)
F2 == Path(<<"f","2">>)

\* the lines a procedure body may hold
BodyLines == {LCallA, LCallB, LCallMain, LCommentA, LTPWriteA, LCallByVarA,
              LCallLowerB, LQuotedB, LBangInString}
\* the bodies: empty, or one line
Bodies == {<<>>} \cup {<<l>> : l \in BodyLines}
\* the bodies that are empty or one plain call
PlainBodies == {<<>>, <<LCallA>>, <<LCallB>>, <<LCallMain>>}
\* the bodies of the procedures of a project: any body for the first
\* procedure, a plain one for the others
BodyChoices(n) ==
    {b \in [1..n -> Bodies] : \A k \in 2..n : b[k] \in PlainBodies}

\* which procedures each of the two files declares, and in which module
LayoutMainA_B  == [m1 |-> <<>>, p1 |-> <<LProcMain, LProcA>>,
                   m2 |-> <<>>, p2 |-> <<LProcB>>]
LayoutA_BMain  == [m1 |-> <<>>, p1 |-> <<LProcA>>,
                   m2 |-> <<>>, p2 |-> <<LProcB, LProcMain>>]
LayoutAAb_A    == [m1 |-> <<>>, p1 |-> <<LProcA, LProcAb>>,
                   m2 |-> <<>>, p2 |-> <<LProcA>>]
LayoutBMain_A  == [m1 |-> <<>>, p1 |-> <<LProcB, LProcMain>>,
                   m2 |-> <<>>, p2 |-> <<LProcA>>]
LayoutTwoMains == [m1 |-> <<LModuleM1>>, p1 |-> <<LProcLowerMain>>,
                   m2 |-> <<LModuleM2>>, p2 |-> <<LProcMain, LProcA>>]
Layouts == {LayoutMainA_B, LayoutA_BMain, LayoutAAb_A, LayoutBMain_A,
            LayoutTwoMains}

\* the text of a file: the module line, then each procedure with its body
FileText(m, hdrs, bodies) ==
    m \o Flatten([k \in 1..Len(hdrs) |-> <<hdrs[k]>> \o bodies[k] \o <<LEndProc>>])
      \o (IF m = <<>> THEN <<>> ELSE <<LEndModule>>)

ProjectOf(l, b) ==
    (F1 :> FileText(l.m1, l.p1, SubSeq(b, 1, Len(l.p1))))
    @@ (F2 :> FileText(l.m2, l.p2, SubSeq(b, Len(l.p1) + 1, Len(b))))

Projects ==
    UNION {{ProjectOf(l, b) : b \in BodyChoices(Len(l.p1) + Len(l.p2))} :
             l \in Layouts}

Init ==
    /\ files \in Projects
    /\ exclude_nostepin = TRUE
    /\ dynamic_all \in BOOLEAN
    /\ todo \in Orders(DOMAIN files)
    /\ pc = "startup"
    /\ scan = ScanInit(NoPath)
    /\ proc_registry = <<>>
    /\ proc_name_to_fq = EmptyDict
    /\ file_stats_list = <<>>
    /\ call_graph = EmptyDict
    /\ cg_order = <<>>
    /\ depth = EmptyDict
    /\ queue = <<>>
    /\ file_results = <<>>
    /\ all_dynamic_prefixes = {}
    /\ dictionary_cache = EmptyDict
    /\ synsets_calls = EmptyDict
    /\ walk = NoWalk
    /\ summary = NoSummary
    /\ oracle = "present"
    /\ encoding = [p \in DOMAIN files |-> "utf-8"]

Next ==
    \/ ensure_wordnet
    \/ StartFile
    \/ ReadLine
    \/ EndFile
    \/ CallGraphPass
    \/ DepthSeed
    \/ BfsStep
    \/ ScorePass
    \/ print_results
    \/ update_summary
    \/ copy_summary_to_clipboard

Spec == Init /\ [][Next]_vars

----------------------------------------------------------------------------
(* The call depths of every call graph over three procedures.               *)

\* the procedures of the folder, and the line that calls each of them
DepthProcs == <<LProcMain, LProcA, LProcB>>
DepthCalls == <<LCallMain, LCallA, LCallB>>

\* the calls to the procedures of callees, one per line
CallLines(callees) ==
    Flatten([k \in 1..Len(DepthCalls) |->
               IF k \in callees THEN <<DepthCalls[k]>> ELSE <<>>])

\* one file declaring the procedures, procedure k calling those of graph[k]
GraphProject(graph) ==
    F1 :> Flatten([k \in 1..Len(DepthProcs) |->
                     <<DepthProcs[k]>> \o CallLines(graph[k]) \o <<LEndProc>>])

\* analyze_folder after the first pass of the file (g) and the second pass (cg)
AfterSecondPass(fl, g, cg) ==
    /\ files = fl
    /\ exclude_nostepin = TRUE
    /\ dynamic_all = TRUE
    /\ todo = <<>>
    /\ pc = "depths"
    /\ scan = ScanInit(NoPath)
    /\ proc_registry = g.reg
    /\ proc_name_to_fq = g.n2f
    /\ file_stats_list = <<FileStats(g.s)>>
    /\ call_graph = cg.g
    /\ cg_order = cg.order
    /\ depth = EmptyDict
    /\ queue = <<>>
    /\ file_results = <<>>
    /\ all_dynamic_prefixes = g.s.dynamic_call_prefixes
    /\ dictionary_cache = EmptyDict
    /\ synsets_calls = EmptyDict
    /\ walk = NoWalk
    /\ summary = NoSummary
    /\ oracle = "present"
    /\ encoding = [p \in DOMAIN files |-> "utf-8"]

\* the first pass of the only file of a folder
FirstPass(fl) ==
    ScanLines([s |-> ScanInit(F1), reg |-> <<>>, n2f |-> EmptyDict], fl[F1], TRUE)

InitDepth ==
    \E graph \in [1..Len(DepthProcs) -> SUBSET (1..Len(DepthProcs))] :
        \E g \in {FirstPass(GraphProject(graph))} :
            AfterSecondPass(GraphProject(graph), g,
                            BuildCallGraph(g.reg, g.n2f, TRUE))

NextDepth ==
    \/ DepthSeed
    \/ BfsStep

\* the loop of compute_call_depths_from_main runs on: nothing suspends it
SpecDepth == InitDepth /\ [][NextDepth]_vars /\ WF_vars(NextDepth)

----------------------------------------------------------------------------
(* Folders of one file with extreme figures: many unused, badly named       *)
(* variables, many comments, a deep nest of IFs, a long chain of calls,     *)
(* many procedures, many lines.                                             *)

\* the number of blank lines that end a long file
Extreme == 1000
\* a number of declared names over the cap of the naming and unused-variable
\* penalties
ManyNames == 41
\* a number of comment lines that outweighs the code
ManyComments == 50
\* a number of nested IFs over the caps of the complexity and nesting penalties
ManyBranches == 81
\* a number of procedures over the cap of the procedure-count penalty
ManyProcs == 41
\* the length of a chain of calls over the cap of the call-depth penalty
LongChain == 8

\* a name of three letters: not a word, not an allowed short token
TwoLetters(k) == <<LowerSeq[(k % 26) + 1], LowerSeq[(k \div 26) + 1]>>
\* VAR num q..;
DeclLine(k) == <<"V","A","R"," ","n","u","m"," ","q">> \o TwoLetters(k) \o <<";">>
\* ! c
LComment == <<"!"," ","c">>
\* IF x THEN
LIf == <<"I","F"," ","x"," ","T","H","E","N">>
\* PROC p..()
ProcLine(k) == <<"P","R","O","C"," ","p">> \o TwoLetters(k) \o <<"(",")">>
\*   p..;
CallLine(k) == <<" "," ","p">> \o TwoLetters(k) \o <<";">>

\* Main: the nest of IFs, never closed, and the call that starts the chain
MainLines(branches, chain) ==
    <<LProcMain>> \o [i \in 1..branches |-> LIf]
        \o <<IF chain > 0 THEN CallLine(1) ELSE <<>>, LEndProc>>

\* procedure k on three lines: the header, the call to procedure k + 1 for
\* the procedures of the chain, ENDPROC
ProcLines(procs, chain) ==
    [i \in 1..(3 * procs) |->
        IF i % 3 = 1 THEN ProcLine((i + 2) \div 3)
        ELSE IF i % 3 = 0 THEN LEndProc
        ELSE IF (i + 2) \div 3 < chain THEN CallLine(((i + 2) \div 3) + 1)
        ELSE <<>>]

ExtremeFile(names, comments, branches, procs, chain, blanks) ==
    [i \in 1..names |-> DeclLine(i)] \o [i \in 1..comments |-> LComment]
        \o MainLines(branches, chain) \o ProcLines(procs, chain)
        \o [i \in 1..blanks |-> <<>>]

ExtremeProjects ==
    {F1 :> ExtremeFile(names, comments, branches, shape[1], shape[2], blanks) :
        names \in {0, ManyNames}, comments \in {0, 3, ManyComments},
        branches \in {0, ManyBranches},
        shape \in {<<0, 0>>, <<ManyProcs, 0>>, <<ManyProcs, LongChain>>},
        blanks \in {0, Extreme}}

InitScore ==
    /\ files \in ExtremeProjects
    /\ exclude_nostepin = TRUE
    /\ dynamic_all = TRUE
    /\ todo = <<F1>>
    /\ pc = "startup"
    /\ scan = ScanInit(NoPath)
    /\ proc_registry = <<>>
    /\ proc_name_to_fq = EmptyDict
    /\ file_stats_list = <<>>
    /\ call_graph = EmptyDict
    /\ cg_order = <<>>
    /\ depth = EmptyDict
    /\ queue = <<>>
    /\ file_results = <<>>
    /\ all_dynamic_prefixes = {}
    /\ dictionary_cache = EmptyDict
    /\ synsets_calls = EmptyDict
    /\ walk = NoWalk
    /\ summary = NoSummary
    /\ oracle = "present"
    /\ encoding = [p \in DOMAIN files |-> "utf-8"]

SpecScore == InitScore /\ [][Next]_vars

----------------------------------------------------------------------------
(* Folders of one short file, of lines with and without control keywords.   *)

\* the largest number of lines of the file
MaxLines == 4

\* ENDIF
LEndIf == <<"E","N","D","I","F">>
\* ELSEIF y THEN
LElseIf == <<"E","L","S","E","I","F"," ","y"," ","T","H","E","N">>
\* TestA;
LCallTestA == <<"T","e","s","t","A",";">>
\* PROC TestA()
LProcTestA == <<"P","R","O","C"," ","T","e","s","t","A","(",")">>

ScanLineChoices ==
    {LProcMain, LEndProc, LIf, LEndIf, LElseIf, LCallTestA, LProcTestA, LComment,
     LCallMain}

InitScan ==
    /\ \E n \in 0..MaxLines : files \in {F1 :> l : l \in [1..n -> ScanLineChoices]}
    /\ exclude_nostepin = TRUE
    /\ dynamic_all = TRUE
    /\ todo = <<F1>>
    /\ pc = "startup"
    /\ scan = ScanInit(NoPath)
    /\ proc_registry = <<>>
    /\ proc_name_to_fq = EmptyDict
    /\ file_stats_list = <<>>
    /\ call_graph = EmptyDict
    /\ cg_order = <<>>
    /\ depth = EmptyDict
    /\ queue = <<>>
    /\ file_results = <<>>
    /\ all_dynamic_prefixes = {}
    /\ dictionary_cache = EmptyDict
    /\ synsets_calls = EmptyDict
    /\ walk = NoWalk
    /\ summary = NoSummary
    /\ oracle = "present"
    /\ encoding = [p \in DOMAIN files |-> "utf-8"]

SpecScan == InitScan /\ [][Next]_vars

----------------------------------------------------------------------------
(* Folders of two short files that declare and use a variable.              *)

\* the largest number of lines of each of the two files
MaxVarLines == 2

\* VAR num v;
LDeclV == <<"V","A","R"," ","n","u","m"," ","v",";">>
\* VAR num w:=v;
LDeclWFromV == <<"V","A","R"," ","n","u","m"," ","w",":","=","v",";">>
\* w:=v;
LUseV == <<"w",":","=","v",";">>
\* x:="!";w:=v;
LUseVAfterBang == <<"x",":","=","\"","!","\"",";","w",":","=","v",";">>
\* x:="v";
LQuotedV == <<"x",":","=","\"","v","\"",";">>
\* ! v
LCommentV == <<"!"," ","v">>

VarLineChoices ==
    {LDeclV, LDeclWFromV, LUseV, LUseVAfterBang, LQuotedV, LCommentV, LProcMain,
     LCallMain}

\* the files of at most MaxVarLines lines
VarFiles == UNION {[1..n -> VarLineChoices] : n \in 0..MaxVarLines}

InitVars ==
    /\ \E l1 \in VarFiles : \E l2 \in VarFiles : files = (F1 :> l1) @@ (F2 :> l2)
    /\ exclude_nostepin = TRUE
    /\ dynamic_all = TRUE
    /\ todo = <<F1, F2>>
    /\ pc = "startup"
    /\ scan = ScanInit(NoPath)
    /\ proc_registry = <<>>
    /\ proc_name_to_fq = EmptyDict
    /\ file_stats_list = <<>>
    /\ call_graph = EmptyDict
    /\ cg_order = <<>>
    /\ depth = EmptyDict
    /\ queue = <<>>
    /\ file_results = <<>>
    /\ all_dynamic_prefixes = {}
    /\ dictionary_cache = EmptyDict
    /\ synsets_calls = EmptyDict
    /\ walk = NoWalk
    /\ summary = NoSummary
    /\ oracle = "present"
    /\ encoding = [p \in DOMAIN files |-> "utf-8"]

SpecVars == InitVars /\ [][Next]_vars

----------------------------------------------------------------------------
(* Folders of one file that declares one or two variables, the names made   *)
(* of words, allowed and vague short tokens, capitals, digits, underscores.  *)

\* the largest number of pieces of a name
MaxPieces == 3

NamePieces ==
    {<<"s","e","t">>, <<"S","e","t">>, <<"d","i">>, <<"q">>, <<"X">>,
     <<"A","x","i","s">>, <<"a","x","i","s">>, <<"1">>, <<"_">>,
     <<kDoubleStruckC>>, <<"D","O">>, <<"u","p">>}

\* the names of at most MaxPieces pieces that start with a letter
NameChoices ==
    {n \in {Flatten(ps) : ps \in UNION {[1..k -> NamePieces] : k \in 1..MaxPieces}} :
        n[1] \in LetterChars}

\* VAR num <name>;
DeclOf(name) == <<"V","A","R"," ","n","u","m"," ">> \o name \o <<";">>

\* the lines after the first declaration
RestChoices ==
    {<<>>, <<DeclOf(<<"d","i">>)>>, <<DeclOf(<<"q">>)>>,
     <<DeclOf(<<"s","e","t","Q">>)>>, <<LProcMain, LCallMain>>}

NameProjects ==
    {F1 :> rest : rest \in RestChoices}
        \cup {F1 :> <<DeclOf(n)>> \o rest : n \in NameChoices, rest \in RestChoices}

InitNames ==
    /\ files \in NameProjects
    /\ exclude_nostepin = TRUE
    /\ dynamic_all = TRUE
    /\ todo = <<F1>>
    /\ pc = "startup"
    /\ scan = ScanInit(NoPath)
    /\ proc_registry = <<>>
    /\ proc_name_to_fq = EmptyDict
    /\ file_stats_list = <<>>
    /\ call_graph = EmptyDict
    /\ cg_order = <<>>
    /\ depth = EmptyDict
    /\ queue = <<>>
    /\ file_results = <<>>
    /\ all_dynamic_prefixes = {}
    /\ dictionary_cache = EmptyDict
    /\ synsets_calls = EmptyDict
    /\ walk = NoWalk
    /\ summary = NoSummary
    /\ oracle = "present"
    /\ encoding = [p \in DOMAIN files |-> "utf-8"]

SpecNames == InitNames /\ [][Next]_vars

----------------------------------------------------------------------------
(* Folders of up to twelve files, poor ones and good ones.                   *)

\* the declarations of a poor file
FewNames == 15
\* the nest of IFs of a poor file
DeepNest == 14
\* the largest number of files of a folder
ManyFiles == 12

\* f<k>
FileNo(k) ==
    Path(<<"f">> \o (IF k < 10 THEN <<DigitSeq[k + 1]>>
                     ELSE <<DigitSeq[(k \div 10) + 1], DigitSeq[(k % 10) + 1]>>))

\* unused vague names, a deep nest, a long chain of calls, no comment
PoorFile == ExtremeFile(FewNames, 0, DeepNest, LongChain, LongChain, 0)
\* three comments and an empty Main
GoodFile == ExtremeFile(0, 3, 0, 0, 0, 0)

\* n files, the poor ones first or last
FolderOf(n, poor, first) ==
    [p \in {FileNo(k) : k \in 1..n} |->
        IF \E k \in 1..n : /\ p = FileNo(k)
                           /\ (IF first THEN k <= poor ELSE k > n - poor)
        THEN PoorFile ELSE GoodFile]

InitProject ==
    /\ \E n \in {0, 1, 2, 3, 4, 6, 11, ManyFiles} :
       \E poor \in 0..Min({3, n}) :
       \E first \in BOOLEAN :
          /\ files = FolderOf(n, poor, first)
          /\ todo = [k \in 1..n |-> FileNo(k)]
    /\ exclude_nostepin = TRUE
    /\ dynamic_all = TRUE
    /\ pc = "startup"
    /\ scan = ScanInit(NoPath)
    /\ proc_registry = <<>>
    /\ proc_name_to_fq = EmptyDict
    /\ file_stats_list = <<>>
    /\ call_graph = EmptyDict
    /\ cg_order = <<>>
    /\ depth = EmptyDict
    /\ queue = <<>>
    /\ file_results = <<>>
    /\ all_dynamic_prefixes = {}
    /\ dictionary_cache = EmptyDict
    /\ synsets_calls = EmptyDict
    /\ walk = NoWalk
    /\ summary = NoSummary
    /\ oracle = "present"
    /\ encoding = [p \in DOMAIN files |-> "utf-8"]

SpecProject == InitProject /\ [][Next]_vars

----------------------------------------------------------------------------
(* Folders of up to three short files, of bytes in UTF-8, in cp1252 or in    *)
(* neither, with the WordNet data installed or not.                          *)

\* the largest number of files of the folder
MaxFiles == 3

\* what a file holds once it is decoded
ShortFiles == {<<>>, <<LProcMain, LCallMain>>, <<DeclOf(<<"s","e","t","Q">>)>>}

\* "none": bytes that are not UTF-8 and that cp1252 leaves undefined
Encodings == {"utf-8", "cp1252", "none"}

InitRun(encodings, oracles) ==
    /\ \E n \in 1..MaxFiles :
          /\ files \in [{FileNo(k) : k \in 1..n} -> ShortFiles]
          /\ encoding \in [{FileNo(k) : k \in 1..n} -> encodings]
          /\ todo = [k \in 1..n |-> FileNo(k)]
    /\ oracle \in oracles
    /\ exclude_nostepin = TRUE
    /\ dynamic_all = TRUE
    /\ pc = "startup"
    /\ scan = ScanInit(NoPath)
    /\ proc_registry = <<>>
    /\ proc_name_to_fq = EmptyDict
    /\ file_stats_list = <<>>
    /\ call_graph = EmptyDict
    /\ cg_order = <<>>
    /\ depth = EmptyDict
    /\ queue = <<>>
    /\ file_results = <<>>
    /\ all_dynamic_prefixes = {}
    /\ dictionary_cache = EmptyDict
    /\ synsets_calls = EmptyDict
    /\ walk = NoWalk
    /\ summary = NoSummary

InitDecode == InitRun(Encodings, {"present"})
SpecDecode == InitDecode /\ [][Next]_vars

InitOracle == InitRun({"utf-8"}, {"present", "absent"})
SpecOracle == InitOracle /\ [][Next]_vars

----------------------------------------------------------------------------
(* Folders of one short file with modules, marked NOSTEPIN or not, scanned   *)
(* with the exclusion on or off.                                             *)

\* the largest number of lines of the file
MaxModuleLines == 3

\* MODULE M1(NOSTEPIN)
LModuleNoStepIn == LModuleM1 \o <<"(","N","O","S","T","E","P","I","N",")">>
\* ! ENDMODULE
LCommentEndModule == <<"!"," ">> \o kENDMODULE
\* !**
LDecorative == DecoStars

ModuleLineChoices ==
    {LModuleNoStepIn, LModuleM1, LEndModule, LCommentEndModule, LDecorative,
     DeclOf(<<"s","e","t","Q">>), LProcMain, LCallMain, LIf, LCallByVarA, <<>>}

InitModule ==
    /\ \E n \in 0..MaxModuleLines :
          files \in {F1 :> l : l \in [1..n -> ModuleLineChoices]}
    /\ exclude_nostepin \in BOOLEAN
    /\ dynamic_all = TRUE
    /\ todo = <<F1>>
    /\ pc = "startup"
    /\ scan = ScanInit(NoPath)
    /\ proc_registry = <<>>
    /\ proc_name_to_fq = EmptyDict
    /\ file_stats_list = <<>>
    /\ call_graph = EmptyDict
    /\ cg_order = <<>>
    /\ depth = EmptyDict
    /\ queue = <<>>
    /\ file_results = <<>>
    /\ all_dynamic_prefixes = {}
    /\ dictionary_cache = EmptyDict
    /\ synsets_calls = EmptyDict
    /\ walk = NoWalk
    /\ summary = NoSummary
    /\ oracle = "present"
    /\ encoding = [p \in DOMAIN files |-> "utf-8"]

SpecModule == InitModule /\ [][Next]_vars

----------------------------------------------------------------------------
(* Folders of one file of comment lines and code lines, in every proportion *)
(* the line counts below give.                                               *)

\* the line counts of the files: 50 for the ratio 0.06, 4 for 0.25, 5 for 0.60
LineCounts == {0, 1, 2, 3, 4, 5, 10, 20, 50}

\* k code lines: Main calling itself when there is room, then plain calls
CodeLines(k) ==
    IF k >= 3 THEN <<LProcMain, LCallMain, LEndProc>> \o [i \in 1..(k - 3) |-> LCallMain]
    ELSE [i \in 1..k |-> LCallMain]

\* a file of t lines, c of them comments
CommentedFile(t, c) == [i \in 1..c |-> LComment] \o CodeLines(t - c)

InitComment ==
    /\ \E t \in LineCounts : \E c \in 0..t : files = (F1 :> CommentedFile(t, c))
    /\ exclude_nostepin = TRUE
    /\ dynamic_all = TRUE
    /\ todo = <<F1>>
    /\ pc = "startup"
    /\ scan = ScanInit(NoPath)
    /\ proc_registry = <<>>
    /\ proc_name_to_fq = EmptyDict
    /\ file_stats_list = <<>>
    /\ call_graph = EmptyDict
    /\ cg_order = <<>>
    /\ depth = EmptyDict
    /\ queue = <<>>
    /\ file_results = <<>>
    /\ all_dynamic_prefixes = {}
    /\ dictionary_cache = EmptyDict
    /\ synsets_calls = EmptyDict
    /\ walk = NoWalk
    /\ summary = NoSummary
    /\ oracle = "present"
    /\ encoding = [p \in DOMAIN files |-> "utf-8"]

SpecComment == InitComment /\ [][Next]_vars

----------------------------------------------------------------------------
(* The word oracle called on its own, with words in any letter case.        *)

\* how many calls of wn.synsets with one word the model follows
MaxCalls == 2

\* the words is_dictionary_word is called with
CacheWords ==
    {<<"s","e","t">>,
     <<"S","e","t">>,
     <<"S","E","T">>,
     <<"a","x","i","s">>,
     <<"A","x","i","s">>,
     <<"d","o","o","r">>,
     <<"D","O","O","R">>,
     <<"p","a","r","s","e","r">>,
     <<"m","a","i","n">>,
     <<"M","a","i","n">>,
     <<"q","z","x">>,
     <<"Q","z","x">>,
     <<"u","p">>,
     <<"o","p","e","n">>,
     <<"O","p","e","n">>}

InitCache ==
    /\ files = (F1 :> <<>>)
    /\ exclude_nostepin = TRUE
    /\ dynamic_all = TRUE
    /\ todo = <<F1>>
    /\ pc = "startup"
    /\ scan = ScanInit(NoPath)
    /\ proc_registry = <<>>
    /\ proc_name_to_fq = EmptyDict
    /\ file_stats_list = <<>>
    /\ call_graph = EmptyDict
    /\ cg_order = <<>>
    /\ depth = EmptyDict
    /\ queue = <<>>
    /\ file_results = <<>>
    /\ all_dynamic_prefixes = {}
    /\ dictionary_cache = EmptyDict
    /\ synsets_calls = EmptyDict
    /\ walk = NoWalk
    /\ summary = NoSummary
    /\ oracle = "present"
    /\ encoding = [p \in DOMAIN files |-> "utf-8"]

\* a caller of the module calls is_dictionary_word(word)
IsDictionaryWord ==
    \E word \in CacheWords :
        /\ CallCount(synsets_calls, Lower(word)) < MaxCalls
        /\ \E r \in {DictionaryWordCall(dictionary_cache, synsets_calls, word)} :
              /\ dictionary_cache' = r.cache
              /\ synsets_calls' = r.calls
        /\ UNCHANGED <<files, exclude_nostepin, dynamic_all, pc, todo, scan,
                       proc_registry, proc_name_to_fq, file_stats_list, call_graph,
                       cg_order, depth, queue, file_results, all_dynamic_prefixes,
                       summary, oracle, encoding, walk>>

NextCache == IsDictionaryWord

SpecCache == InitCache /\ [][NextCache]_vars

----------------------------------------------------------------------------
(* The call-tree walk: build_call_tree_text of the window and                *)
(* print_call_tree_from_main, over the graphs of Main, A and B.              *)

\* "(cycle detected, stopping here)"
kCycle == <<"(","c","y","c","l","e",")">>

\* visiting.remove(node), were the node left in the set
Leave_kept(visiting, node) == visiting

\* visiting.remove(node)
Leave(visiting, node) == visiting \ {node}

\* dfs(node, level, visiting) up to its loop: the line of the node, then the
\* cycle marker and the return, or the node added to visiting and the loop
\* over its sorted callees begun
Enter(cg, w, node, level) ==
    IF node \in w.visiting
    THEN [w EXCEPT !.lines = @ \o <<[depth |-> level, text |-> node],
                                   [depth |-> level, text |-> kCycle]>>]
    ELSE [w EXCEPT !.lines = Append(@, [depth |-> level, text |-> node]),
                   !.visiting = @ \cup {node},
                   !.stack = Append(@, [node  |-> node,
                                        depth |-> level,
                                        rest  |-> Sorted(Callees(cg, node))])]

\* the loop of the innermost dfs, top being its frame: the next callee is
\* entered, or the loop is over, the node leaves visiting and dfs returns
Resume(cg, w, top) ==
    IF top.rest = <<>>
    THEN [w EXCEPT !.visiting = Leave(@, top.node),
                   !.stack = SubSeq(@, 1, Len(@) - 1)]
    ELSE Enter(cg, [w EXCEPT !.stack[Len(w.stack)].rest = Tail(@)],
               Head(top.rest), top.depth + 1)

\* one step of the walk: "for m in main_candidates: dfs(m, 0, set())" when no
\* dfs is running, else the innermost dfs
WalkStep(cg, w) ==
    IF w.stack = <<>>
    THEN Enter(cg, [w EXCEPT !.roots = Tail(@), !.visiting = {}], Head(w.roots), 0)
    ELSE Resume(cg, w, w.stack[Len(w.stack)])

\* the roots of build_call_tree_text: the entry points among the keys of the
\* graph, sorted, or every key, sorted, when there is none
TextRoots(cg) ==
    IF {p \in DOMAIN cg : IsMainName(p)} # {}
    THEN Sorted({p \in DOMAIN cg : IsMainName(p)})
    ELSE Sorted(DOMAIN cg)

\* the walk is called: build_call_tree_text with its roots, or
\* print_call_tree_from_main with the main candidates
CallTreeStart ==
    /\ pc = "done"
    /\ \E roots \in {TextRoots(call_graph), MainCandidates(cg_order)} :
          walk' = [NoWalk EXCEPT !.roots = roots]
    /\ pc' = "tree"
    /\ UNCHANGED <<files, exclude_nostepin, dynamic_all, todo, scan, proc_registry,
                   proc_name_to_fq, file_stats_list, call_graph, cg_order, depth,
                   queue, file_results, all_dynamic_prefixes, dictionary_cache,
                   summary, oracle, encoding, synsets_calls>>

\* the walk goes on, or it is over and the function returns
CallTreeStep ==
    /\ pc = "tree"
    /\ IF walk.stack = <<>> /\ walk.roots = <<>>
       THEN walk' = walk /\ pc' = "tree_done"
       ELSE walk' = WalkStep(call_graph, walk) /\ pc' = "tree"
    /\ UNCHANGED <<files, exclude_nostepin, dynamic_all, todo, scan, proc_registry,
                   proc_name_to_fq, file_stats_list, call_graph, cg_order, depth,
                   queue, file_results, all_dynamic_prefixes, dictionary_cache,
                   summary, oracle, encoding, synsets_calls>>

NextTree ==
    \/ DepthSeed
    \/ BfsStep
    \/ ScorePass
    \/ CallTreeStart
    \/ CallTreeStep

\* the walk runs on: nothing suspends it
SpecTree == InitDepth /\ [][NextTree]_vars /\ WF_vars(CallTreeStep)

----------------------------------------------------------------------------
(* The notions the properties below are stated with.                        *)

AfterCallGraph == pc \in {"depths", "bfs", "scores", "done"}
AfterDepths    == pc \in {"scores", "done"}

\* the registered procedures
Registered == SeqRange(proc_registry)
\* the fully-qualified names registered for a lowercase bare name
FqsOf(bare) == {p.fqname : p \in {q \in Registered : Lower(q.proc_name) = bare}}
\* the registered lowercase bare names
BareNames == {Lower(p.proc_name) : p \in Registered}

\* an entry point: the bare name is "main", or the fully-qualified name ends
\* in "::main", whatever the case of the letters
IsEntryPoint(p) ==
    Lower(p.proc_name) = kMAIN \/ EndsWith(Lower(p.fqname), kQMAIN)
EntryPoints == {p.fqname : p \in {q \in Registered : IsEntryPoint(q)}}

\* the nodes S and their callees
Grow(S) == S \cup UNION {Callees(call_graph, n) : n \in S}
RECURSIVE Within(_, _)
\* the nodes a call path of at most k edges reaches from S
Within(S, k) == IF k = 0 THEN S ELSE Grow(Within(S, k - 1))
\* the nodes some call path reaches from S
ReachableFrom(S) == Within(S, Len(proc_registry))
\* the length of the shortest call path from S to n
Distance(S, n) == Min({k \in 0..Len(proc_registry) : n \in Within(S, k)})

\* fully-qualified names of the folders analysed
nMain == <<"M","a","i","n">>
nA    == <<"A">>
nB    == <<"B">>
Fq(module_name, proc_name) == module_name \o ColonColon \o proc_name

----------------------------------------------------------------------------
(* C2: Main calls A, A calls B, A and B in two files.                       *)

\* f1 declares Main and A, f2 declares B
ChainMainA_B == ProjectOf(LayoutMainA_B, <<<<LCallA>>, <<LCallB>>, <<>>>>)
\* f1 declares A, f2 declares B and Main
ChainA_BMain == ProjectOf(LayoutA_BMain, <<<<LCallB>>, <<>>, <<LCallA>>>>)

\* the edges and the depths of the chain main -> a -> b in the folder fl
ChainResult(fl, main, a, b) ==
    files = fl =>
        /\ AfterCallGraph => call_graph = (main :> {a}) @@ (a :> {b})
        /\ AfterDepths => depth = (main :> 0) @@ (a :> 1) @@ (b :> 2)

\* C2: for two files declaring A and B, Main's body naming A and A's body
\* naming B, the analysis produces exactly the edges Main->A and A->B and the
\* depth map {Main:0, A:1, B:2}, in whichever order the files are scanned
C2_ChainAcrossFiles ==
    /\ ChainResult(ChainMainA_B, Fq(F1.stem, nMain), Fq(F1.stem, nA), Fq(F2.stem, nB))
    /\ ChainResult(ChainA_BMain, Fq(F2.stem, nMain), Fq(F1.stem, nA), Fq(F2.stem, nB))

\* the analysis of the chain is finished, the file of Main and B having been
\* scanned before the file of A
C2_Witness ==
    /\ files = ChainA_BMain
    /\ pc = "done"
    /\ file_stats_list[1].file_path = F2
    /\ depth[Fq(F2.stem, nB)] = 2

----------------------------------------------------------------------------
(* C5, C6, C7: entry points and depths.                                     *)

\* C6: every registered procedure whose bare name is "main" (whatever the
\* case), or whose fully-qualified name ends in "::main", is seeded at depth 0
\* in the depth map, however many outgoing call edges it has
C6_EveryMainSeeded ==
    AfterDepths =>
        \A fq \in EntryPoints : fq \in DOMAIN depth /\ depth[fq] = 0

\* C5: every value of the depth map is the length of the shortest call path
\* from the nearest entry point; for every edge u->v with u in the map, v is
\* in the map and depth[v] <= depth[u] + 1; a procedure is absent from the map
\* exactly when no call path from an entry point reaches it
C5_ShortestFromEntryPoints ==
    AfterDepths =>
        /\ \A n \in DOMAIN depth :
              /\ n \in ReachableFrom(EntryPoints)
              /\ depth[n] = Distance(EntryPoints, n)
        /\ \A u \in DOMAIN depth : \A v \in Callees(call_graph, u) :
              v \in DOMAIN depth /\ depth[v] <= depth[u] + 1
        /\ \A p \in Registered :
              p.fqname \notin DOMAIN depth <=>
                  p.fqname \notin ReachableFrom(EntryPoints)

\* C7: if no registered procedure is an entry point, the depth map is empty
\* and every file record has max_call_depth 0 and no call-depth penalty
C7_NoEntryPoint ==
    EntryPoints = {} =>
        /\ AfterDepths => depth = EmptyDict
        /\ pc = "done" =>
              /\ Len(file_results) = Len(file_stats_list)
              /\ \A i \in 1..Len(file_results) :
                    /\ file_results[i].max_call_depth = 0
                    /\ file_results[i].call_depth_penalty = FInt(0)

\* a folder without entry point but with call edges has been analysed
C7_Witness ==
    /\ pc = "done"
    /\ EntryPoints = {}
    /\ call_graph # EmptyDict
    /\ Len(file_results) = 2

----------------------------------------------------------------------------
(* C8, C9: the edges of the call graph.                                     *)

\* a body line build_call_graph skips: a full comment line or a TPWrite line
FullCommentOrDisplay(line) ==
    StartsWith(LStrip(line), Bang) \/ StartsWith(Upper(LStrip(line)), kTPWRITE)

\* the quoted prefix of a CallByVar line, <<>> when the line has none
QuotedPrefix(line) == Strip(CallByVarArg(line))

\* the dynamic targets of a prefix as C8 states them
PrefixTargets(prefix) ==
    IF dynamic_all
    THEN UNION {FqsOf(b) : b \in {x \in BareNames : StartsWith(x, Lower(prefix))}}
    ELSE IF {x \in BareNames : StartsWith(x, Lower(prefix))} = {} THEN {}
    ELSE {FirstSorted(FqsOf(FirstSorted({x \in BareNames :
                                           StartsWith(x, Lower(prefix))})))}

\* the identifiers of a line outside quoted literals and inline comments: a
\* "!" inside a quoted literal starts no comment
IdentsOutside(line) == Idents(BeforeBang(RemoveStrings(line)))

\* the registered procedures the identifiers of a body line name
NamedBy(line) ==
    UNION {FqsOf(Lower(ident)) : ident \in IdentsOutside(line)}

\* C8: for each CallByVar line with a quoted prefix, in first-variant-only
\* mode the targets added are at most one fully-qualified name, the first
\* fully-qualified form of the first matching bare name in lexicographic
\* order; in resolve-all-variants mode they are every fully-qualified name of
\* every registered bare name that starts with the prefix, whatever the case
C8_DynamicTargets ==
    AfterCallGraph =>
        \A p \in Registered : \A k \in 1..Len(p.body_lines) :
            (~FullCommentOrDisplay(p.body_lines[k])
             /\ QuotedPrefix(p.body_lines[k]) # <<>>) =>
                /\ PrefixTargets(QuotedPrefix(p.body_lines[k]))
                       \subseteq Callees(call_graph, p.fqname)
                /\ Callees(call_graph, p.fqname) \ NamedBy(p.body_lines[k])
                       \subseteq PrefixTargets(QuotedPrefix(p.body_lines[k]))
                /\ ~dynamic_all =>
                       Cardinality(Callees(call_graph, p.fqname)
                                     \ NamedBy(p.body_lines[k])) <= 1

\* first-variant-only mode has resolved a prefix that two bare names match,
\* the first of them declared in two files
C8_Witness ==
    /\ AfterCallGraph
    /\ ~dynamic_all
    /\ \E p \in Registered :
          /\ p.body_lines = <<LCallByVarA>>
          /\ Cardinality({x \in BareNames : StartsWith(x, <<"a">>)}) = 2
          /\ Cardinality(FqsOf(<<"a">>)) = 2
          /\ call_graph[p.fqname] = {Fq(F1.stem, nA)}

\* C9: for every body line of a registered procedure P that is neither a full
\* comment line nor a TPWrite line, each identifier outside inline comments
\* and quoted literals that equals a registered bare name, whatever the case,
\* adds an edge from P to every fully-qualified procedure of that bare name
C9_StaticEdges ==
    AfterCallGraph =>
        \A p \in Registered : \A k \in 1..Len(p.body_lines) :
            ~FullCommentOrDisplay(p.body_lines[k]) =>
                NamedBy(p.body_lines[k]) \subseteq Callees(call_graph, p.fqname)

----------------------------------------------------------------------------
(* C10: the procedures counted as unreachable.                              *)

\* the dynamic-dispatch prefixes collected from all the files
CollectedPrefixes ==
    UNION {file_stats_list[i].dynamic_prefixes : i \in 1..Len(file_stats_list)}

\* no depth-map entry, not "main", no collected prefix starts the name
NotReached(p) ==
    /\ p.fqname \notin DOMAIN depth
    /\ Lower(p.proc_name) # kMAIN
    /\ \A prefix \in CollectedPrefixes : ~StartsWith(Lower(p.proc_name), prefix)

\* C10: a procedure of a file is counted and named as unreachable if and only
\* if it has no depth-map entry, its bare name is not "main" and its lowercase
\* bare name starts with none of the prefixes collected from all the files;
\* unreachable_count is the length of unreachable_procs
C10_Unreachable ==
    pc = "done" =>
        \A i \in 1..Len(file_results) :
            /\ file_results[i].unreachable_count
                   = Len(file_results[i].unreachable_procs)
            /\ file_results[i].unreachable_count
                   = Cardinality({p \in Registered :
                                    /\ p.file_path = file_results[i].file_path
                                    /\ NotReached(p)})
            /\ \A p \in {q \in Registered :
                           q.file_path = file_results[i].file_path} :
                   NotReached(p) <=>
                       p.proc_name \in SeqRange(file_results[i].unreachable_procs)

\* a folder is analysed in which, without depth-map entry, one procedure is
\* named unreachable, Main is not, and a third is matched by a prefix
\* collected from the other file
C10_Witness ==
    /\ pc = "done"
    /\ \E p, q, r \in Registered :
          /\ {p.fqname, q.fqname, r.fqname} \cap DOMAIN depth = {}
          /\ Lower(p.proc_name) = kMAIN
          /\ \E i \in 1..Len(file_results) :
                /\ file_results[i].file_path = q.file_path
                /\ file_results[i].unreachable_procs = <<q.proc_name>>
          /\ \E i \in 1..Len(file_stats_list) :
                /\ file_stats_list[i].file_path # r.file_path
                /\ \E prefix \in file_stats_list[i].dynamic_prefixes :
                      StartsWith(Lower(r.proc_name), prefix)

----------------------------------------------------------------------------
(* C4: the breadth-first traversal on graphs with cycles.                   *)

\* n is on a cycle of the call graph
OnCycle(n) == n \in ReachableFrom(Callees(call_graph, n))

\* C4: on any finite call graph, with self-recursion or mutual recursion
\* reachable from an entry point, compute_call_depths_from_main terminates,
\* and every node it reaches has one finite depth, never changed after it is
\* first set
C4_DepthsTerminate ==
    /\ <>(pc = "scores")
    /\ [](\A n \in DOMAIN depth : depth[n] \in 0..Len(proc_registry))
    /\ [](pc = "scores" =>
            ReachableFrom(SeqRange(MainCandidates(cg_order))) \subseteq DOMAIN depth)
    /\ [][\A n \in DOMAIN depth : n \in DOMAIN depth' /\ depth'[n] = depth[n]]_vars

\* the traversal has ended on a graph where Main calls a, a and b call each
\* other and b calls itself
C4_Witness ==
    /\ pc = "scores"
    /\ \E m, a, b \in DOMAIN depth :
          /\ depth[m] = 0 /\ depth[a] = 1 /\ depth[b] = 2
          /\ a \in Callees(call_graph, m)
          /\ b \in Callees(call_graph, a)
          /\ a \in Callees(call_graph, b)
          /\ b \in Callees(call_graph, b)
          /\ OnCycle(a)

----------------------------------------------------------------------------
(* C1: the bounds of the readability score.                                 *)

\* C1: for every file record compute_file_scores produces, readability_score
\* is within [0, 100], however extreme the line counts, the complexity, the
\* nesting, the call depth, the procedure count, the unused-variable count,
\* the bad-token count and the comment ratio
C1_ScoreWithinBounds ==
    \A i \in 1..Len(file_results) :
        /\ FLeq(FInt(0), file_results[i].readability_score)
        /\ FLeq(file_results[i].readability_score, FInt(100))

\* a file is scored whose penalties add up to more than 100
C1_Witness ==
    /\ pc = "done"
    /\ \E i \in 1..Len(file_results) :
          /\ FLess(FInt(100), file_results[i].total_penalty)
          /\ file_results[i].bad_word_penalty = FInt(20)
          /\ file_results[i].unused_var_penalty = FInt(20)
          /\ file_results[i].readability_score = FInt(0)

----------------------------------------------------------------------------
(* C3: the complexity and the nesting of a file.                            *)

\* the first word of a line, in upper case
FirstWord(line) == Upper(SubSeq(LStrip(line), 1, WordEnd(LStrip(line), 1) - 1))
\* a line that opens a block, one that closes a block, a mid-block branch
OpensBlock(line) == FirstWord(line) \in CONTROL_START
ClosesBlock(line) == FirstWord(line) \in CONTROL_END
BranchesBlock(line) == FirstWord(line) \in EXTRA_DECISION

RECURSIVE OpenBlocks(_, _)
\* the number of blocks open after line i of a file
OpenBlocks(lines, i) ==
    IF i = 0 THEN 0
    ELSE IF OpensBlock(lines[i]) THEN OpenBlocks(lines, i - 1) + 1
    ELSE IF ClosesBlock(lines[i]) THEN Max({OpenBlocks(lines, i - 1) - 1, 0})
    ELSE OpenBlocks(lines, i - 1)

\* C3: a file whose only procedure is Main, with a body of one IF ... ENDIF
\* block and no comment line, is reported with simple_complexity = 2,
\* max_nesting = 1, comment_lines = 0 and unreachable_count = 0; in general
\* simple_complexity is 1 plus the number of block-opening and mid-block
\* branch lines and max_nesting is the largest number of blocks open at once
C3_ComplexityAndNesting ==
    pc = "done" =>
        \A i \in 1..Len(file_results) :
            /\ files[file_results[i].file_path] = <<LProcMain, LIf, LEndIf, LEndProc>>
                 => /\ file_results[i].simple_complexity = 2
                    /\ file_results[i].max_nesting = 1
                    /\ file_results[i].comment_lines = 0
                    /\ file_results[i].unreachable_count = 0
            /\ file_results[i].simple_complexity =
                 1 + Cardinality({k \in DOMAIN files[file_results[i].file_path] :
                       \/ OpensBlock(files[file_results[i].file_path][k])
                       \/ BranchesBlock(files[file_results[i].file_path][k])})
            /\ file_results[i].max_nesting =
                 Max({OpenBlocks(files[file_results[i].file_path], k) :
                        k \in 0..Len(files[file_results[i].file_path])})

----------------------------------------------------------------------------
(* C11: the penalty of an unreachable procedure.                            *)

\* the depth map with the unreachable procedures of a file entered at depth
\* 0: the file has no unreachable procedure and the same max_call_depth
WithReached(d, path) ==
    [fq \in DOMAIN d \cup {p.fqname : p \in {q \in Registered :
                                      q.file_path = path /\ NotReached(q)}} |->
        IF fq \in DOMAIN d THEN d[fq] ELSE 0]

\* the record of file i, its unreachable procedures taken as reached
ScoredAsReached(i) ==
    FileScore(file_stats_list[i], proc_registry,
              WithReached(depth, file_stats_list[i].file_path),
              all_dynamic_prefixes, ProjectUsedVars(file_stats_list),
              dictionary_cache).res

\* C11: an unreachable procedure is penalized: a file with an unreachable
\* procedure has a larger total_penalty than the same file with every other
\* penalty input equal and no unreachable procedure
C11_UnreachablePenalized ==
    pc = "done" =>
        \A i \in 1..Len(file_results) :
            file_results[i].unreachable_count > 0 =>
                /\ ScoredAsReached(i).unreachable_count = 0
                /\ FLess(ScoredAsReached(i).total_penalty,
                         file_results[i].total_penalty)

----------------------------------------------------------------------------
(* C12: the unused variables.                                               *)

\* a line counted as code that is no declaration
IsPlainCodeLine(line) ==
    /\ Strip(line) # <<>>
    /\ ~StartsWith(Strip(line), Bang)
    /\ DeclName(line) = <<>>

\* the names referenced on the non-declaration code lines of a file
ReferencedIn(path) ==
    UNION {IdentsOutside(files[path][k]) :
             k \in {n \in DOMAIN files[path] : IsPlainCodeLine(files[path][n])}}

\* C12: a variable declared in a file is reported as unused in the record of
\* that file if and only if its name is in the referenced-identifier set of
\* no file of the project; a declared name referenced on a non-declaration
\* code line of another file is not reported as unused
C12_UnusedVars ==
    pc = "done" =>
        \A i \in 1..Len(file_results) :
            \A name \in file_stats_list[i].var_declared :
                /\ name \in SeqRange(file_results[i].unused_vars)
                     <=> \A j \in 1..Len(file_stats_list) :
                            name \notin file_stats_list[j].var_uses
                /\ (\E path \in DOMAIN files \ {file_results[i].file_path} :
                       name \in ReferencedIn(path))
                     => name \notin SeqRange(file_results[i].unused_vars)

----------------------------------------------------------------------------
(* C13, C14: the naming score and the tokens of a name.                     *)

\* a good token: in the short-token allowlist, or of length >= 3 and accepted
\* by the word oracle
GoodToken(t) ==
    Lower(t) \in ALLOWED_SHORT_TOKENS \/ (Len(t) >= 3 /\ Lower(t) \in WordNet)

\* good tokens / tokens of a name
GoodShare(name) ==
    Frac(Cardinality({k \in DOMAIN split_identifier(name) :
                        GoodToken(split_identifier(name)[k])}),
         Len(split_identifier(name)))

RECURSIVE MeanSum(_)
\* the sum of the shares of the names
MeanSum(names) ==
    IF names = {} THEN FInt(0)
    ELSE FAdd(GoodShare(CHOOSE n \in names : TRUE),
              MeanSum(names \ {CHOOSE n \in names : TRUE}))

\* the tokens of the names
TokensOf(names) == UNION {SeqRange(split_identifier(n)) : n \in names}

\* the score and the bad tokens of a set of names as C13 gives them
NamingAsStated(names, score, bad_words) ==
    /\ names # {} => FMul(score, FInt(Cardinality(names))) = MeanSum(names)
    /\ SeqRange(bad_words) = {Lower(t) : t \in {u \in TokensOf(names) : ~GoodToken(u)}}
    /\ names = {} => score = FInt(1)
    /\ (\A t \in TokensOf(names) : Lower(t) \in ALLOWED_SHORT_TOKENS)
          => score = FInt(1)
    /\ (names # {} /\ \A t \in TokensOf(names) :
                         Lower(t) \notin ALLOWED_SHORT_TOKENS /\ Len(t) < 3)
          => score = FInt(0)

\* C13: variable_name_score is the arithmetic mean over the identifiers of
\* good tokens / tokens, a token being good iff it is in the short-token
\* allowlist or has length >= 3 and is accepted by the word oracle; every
\* other token is in the bad-token set; the score is 1.0 for no identifier,
\* 1.0 when every token is allowlisted, 0.0 when every token is
\* non-allowlisted and shorter than 3 characters
C13_NamingScore ==
    pc = "done" =>
        \A i \in 1..Len(file_results) :
            NamingAsStated(file_stats_list[i].variable_names,
                           FMul(file_results[i].variable_name_score, Frac(1, 100)),
                           file_results[i].bad_words)

\* two names are scored, one of a word and a vague token, one of a word of
\* two letters the oracle accepts: the mean is a quarter
C13_Witness ==
    /\ pc = "done"
    /\ file_stats_list[1].variable_names = {<<"u","p">>, <<"s","e","t","Q">>}
    /\ file_results[1].variable_name_score = FInt(25)
    /\ file_results[1].bad_words = <<<<"q">>, <<"u","p">>>>

\* C14: split_identifier never produces an empty token, and splitting a token
\* it returned again yields that single token
C14_SplitIdempotent ==
    \A i \in 1..Len(file_results) :
        \A name \in file_stats_list[i].variable_names :
            \A k \in DOMAIN split_identifier(name) :
                /\ split_identifier(name)[k] # <<>>
                /\ split_identifier(split_identifier(name)[k])
                     = <<split_identifier(name)[k]>>

----------------------------------------------------------------------------
(* C15: the project score.                                                   *)

\* the places of the lowest scores: three of them, or all when there are fewer
LowestPlaces(s) ==
    CHOOSE I \in SUBSET (1..Len(s)) :
        /\ Cardinality(I) = Min({3, Len(s)})
        /\ \A i \in I : \A j \in (1..Len(s)) \ I : ~FLess(s[j], s[i])

\* min(mean of the scores, mean of the three lowest + 40)
StatedProjectScore(s) ==
    FMin(FMul(FSum(s), Frac(1, Len(s))),
         FAdd(FMul(SumOf([i \in LowestPlaces(s) |-> s[i]]),
                   Frac(1, Cardinality(LowestPlaces(s)))),
              FInt(40)))

\* a place shows nothing, or the stated score in its format
ShowsStated(place, digits) ==
    place.state = "score"
        => place.value = FormatF(StatedProjectScore(Scores(file_results)), digits)

\* C15: the project score reported for the file scores is min(mean of all
\* file scores, mean of the three lowest + 40), all files when there are
\* fewer than three, in the command-line summary, in the summary label of the
\* window and in the summary copied to the clipboard
C15_ProjectScore ==
    /\ ShowsStated(summary.cli, 0)
    /\ ShowsStated(summary.label, 0)
    /\ ShowsStated(summary.clipboard, 1)

----------------------------------------------------------------------------
(* C16: files that do not decode.                                            *)

\* the paths whose bytes one of the two encodings reads
Decodable == {p \in DOMAIN files : Decodes(encoding[p])}

\* C16: a file that fails to decode as UTF-8 is read again as cp1252; a file
\* that fails with both is skipped, and every other file found is still
\* scanned and scored
C16_DecodeFallback ==
    /\ pc # "failed_decode"
    /\ pc = "done" =>
          {file_results[i].file_path : i \in 1..Len(file_results)} = Decodable

----------------------------------------------------------------------------
(* C17: the word oracle that cannot be set up.                               *)

\* C17: when the WordNet data cannot be installed the run fails at startup:
\* no file is scanned and no result is produced after that, and the failure is
\* never first raised by the lookup of a token during the scoring
C17_OracleFatalAtStartup ==
    /\ pc # "failed_lookup"
    /\ (oracle = "absent" /\ pc # "startup") => pc = "failed_startup"

----------------------------------------------------------------------------
(* C18: the modules marked NOSTEPIN.                                         *)

\* a module header that carries the marker
IsMarkedHeader(line) ==
    ModuleName(line) # <<>> /\ Contains(Upper(Strip(line)), kNOSTEPIN)

\* the closing line of a module: the statement ENDMODULE
IsClosingLine(line) == Upper(Strip(line)) = kENDMODULE

RECURSIVE InsideAfter(_, _)
\* whether line k is inside a marked module and does not close it
InsideAfter(lines, k) ==
    IF k = 0 THEN FALSE
    ELSE IF InsideAfter(lines, k - 1) THEN ~IsClosingLine(lines[k])
    ELSE IsMarkedHeader(lines[k])

\* line k is one of the lines from a marked header through the closing line
InMarkedModule(lines, k) ==
    InsideAfter(lines, k - 1) \/ IsMarkedHeader(lines[k])

\* what the lines of a skipped module leave alone
Framed(s) ==
    <<s.total_lines, s.code_lines, s.comment_lines, s.simple_complexity,
      s.depth_complexity, s.nesting_level, s.max_nesting, s.variable_names,
      s.var_declared, s.var_uses, s.dynamic_call_prefixes, s.proc_ids>>

\* the scan reads a line
ReadsLine == pc = "scanning" /\ pc' = "scanning" /\ scan'.lineno = scan.lineno + 1

\* the line read leaves the counters, the sets and the registry alone
LeavesFrame ==
    /\ Framed(scan') = Framed(scan)
    /\ proc_registry' = proc_registry
    /\ proc_name_to_fq' = proc_name_to_fq

\* the line read is read as outside any skipped module
ReadLikeAnyOther ==
    /\ ~scan'.in_nostepin_module
    /\ scan' = CountedLine(
                 [s |-> [scan EXCEPT !.lineno = @ + 1,
                                     !.current_module = scan'.current_module],
                  reg |-> proc_registry, n2f |-> proc_name_to_fq],
                 Strip(files[scan.path][scan'.lineno]),
                 files[scan.path][scan'.lineno],
                 Upper(Strip(files[scan.path][scan'.lineno]))).s

\* C18: with the exclusion on, every line from a module header with the
\* NOSTEPIN marker through the closing line of that module leaves the
\* counters, the variable sets, the dynamic prefixes, the procedure bodies and
\* the registry as they are, and the scan resumes on the line after the
\* closing line; with the exclusion off these lines are read like any other
C18_NoStepInFrame ==
    [][ReadsLine =>
          /\ ((exclude_nostepin /\ InMarkedModule(files[scan.path], scan'.lineno))
                => LeavesFrame)
          /\ (exclude_nostepin
                => (scan'.in_nostepin_module
                        <=> InsideAfter(files[scan.path], scan'.lineno)))
          /\ ((~exclude_nostepin) => ReadLikeAnyOther)]_vars

----------------------------------------------------------------------------
(* C19: the lines counted.                                                   *)

\* a decorative comment
IsDecorative(line) ==
    StartsWith(Strip(line), DecoStars) \/ StartsWith(Strip(line), DecoDashes)

\* line k of the file is skipped: decorative, or of an excluded module
IsSkipped(lines, k) ==
    IsDecorative(lines[k]) \/ (exclude_nostepin /\ InMarkedModule(lines, k))

\* comment, blank or code
LineClass(line) ==
    IF StartsWith(Strip(line), Bang) THEN "comment"
    ELSE IF Strip(line) = <<>> THEN "blank"
    ELSE "code"

\* the line read is counted once, as what it is
CountedOnceAs(class) ==
    /\ scan'.total_lines = scan.total_lines + 1
    /\ scan'.comment_lines = scan.comment_lines + (IF class = "comment" THEN 1 ELSE 0)
    /\ scan'.code_lines = scan.code_lines + (IF class = "code" THEN 1 ELSE 0)

\* total_lines >= code_lines + comment_lines
LinesAddUp(r) == r.total_lines >= r.code_lines + r.comment_lines

\* C19: at every point of the scan and in the metrics returned,
\* total_lines >= code_lines + comment_lines; every line that is not skipped
\* (decorative comment, excluded module) is counted in total_lines exactly
\* once and is exactly one of comment, blank and code
C19_LinesCounted ==
    /\ [](/\ LinesAddUp(scan)
          /\ \A i \in 1..Len(file_stats_list) : LinesAddUp(file_stats_list[i])
          /\ \A i \in 1..Len(file_results) : LinesAddUp(file_results[i]))
    /\ [][(ReadsLine /\ ~IsSkipped(files[scan.path], scan'.lineno))
            => CountedOnceAs(LineClass(files[scan.path][scan'.lineno]))]_vars

\* a comment, a blank line and a code line are read: three lines, one of them
\* a comment and one of them code
C19_Witness ==
    /\ pc = "done"
    /\ files[F1] = <<LCommentEndModule, <<>>, LIf>>
    /\ file_results[1].total_lines = 3
    /\ file_results[1].comment_lines = 1
    /\ file_results[1].code_lines = 1

----------------------------------------------------------------------------
(* C20: the penalties of a file record.                                      *)

\* 0 <= x
NonNegative(x) == FLeq(FInt(0), x)

\* 0 <= x <= cap
WithinCap(x, cap) == FLeq(FInt(0), x) /\ FLeq(x, FInt(cap))

\* the penalties of a record are within their caps, and the conditional ones
\* are zero outside their condition
PenaltiesBounded(r) ==
    /\ WithinCap(r.complexity_penalty, 30)
    /\ WithinCap(r.nesting_penalty, 30)
    /\ WithinCap(r.call_depth_penalty, 50)
    /\ WithinCap(r.proc_count_penalty, 20)
    /\ WithinCap(r.total_line_penalty, 20)
    /\ WithinCap(r.unused_var_penalty, 20)
    /\ WithinCap(r.bad_word_penalty, 20)
    /\ NonNegative(r.proc_size_penalty)
    /\ NonNegative(r.comment_penalty)
    /\ r.proc_count <= 20 => r.proc_count_penalty = FInt(0)
    /\ ~(FLess(Frac(60, 100), r.biggest_proc_ratio) /\ r.total_lines > 300)
          => r.proc_size_penalty = FInt(0)
    /\ ~(r.total_lines > 600 /\ r.proc_count > 1)
          => r.total_line_penalty = FInt(0)

\* C20: every penalty of a file record is >= 0 and at most its cap
\* (complexity 30, nesting 30, call depth 50, procedure count 20, file size
\* 20, unused variables 20, bad naming tokens 20), and the penalties for the
\* procedure count, the procedure size and the file size are 0 whenever
\* their condition does not hold
C20_PenaltiesWithinCaps ==
    pc = "done" => \A i \in 1..Len(file_results) : PenaltiesBounded(file_results[i])

\* a file over every cap: each capped penalty is at its cap
C20_Witness ==
    /\ pc = "done"
    /\ file_results[1].complexity_penalty = FInt(30)
    /\ file_results[1].nesting_penalty = FInt(30)
    /\ file_results[1].call_depth_penalty = FInt(50)
    /\ file_results[1].proc_count_penalty = FInt(20)
    /\ file_results[1].total_line_penalty = FInt(20)
    /\ file_results[1].unused_var_penalty = FInt(20)
    /\ file_results[1].bad_word_penalty = FInt(20)

----------------------------------------------------------------------------
(* C21: the comment score.                                                   *)

\* the ratios comment lines / lines of the files of the family
RatioGrid == UNION {{Frac(c, t) : c \in 0..t} : t \in LineCounts \ {0}}

\* the score at q is what C21 allows next to the score at r
ShapedAt(r, q) ==
    /\ FLeq(FInt(0), comment_score(r)) /\ FLeq(comment_score(r), FInt(1))
    /\ r = FInt(0) => comment_score(r) = FInt(0)
    /\ (FLeq(Frac(6, 100), r) /\ FLeq(r, Frac(25, 100))) => comment_score(r) = FInt(1)
    /\ FLeq(Frac(60, 100), r) => comment_score(r) = FInt(0)
    /\ (FLeq(r, q) /\ FLeq(q, Frac(6, 100)))
          => FLeq(comment_score(r), comment_score(q))
    /\ (FLeq(Frac(25, 100), r) /\ FLeq(r, q) /\ FLeq(q, Frac(60, 100)))
          => FLeq(comment_score(q), comment_score(r))

----------------------------------------------------------------------------
(* C22: the order of the passes.                                             *)

\* the first pass has completed for every file of the folder: nothing is left
\* to scan, every file has its metrics, and every procedure of every file is
\* in the registry and in the bare-name index
FirstPassComplete ==
    /\ todo = <<>>
    /\ {file_stats_list[i].file_path : i \in 1..Len(file_stats_list)} = DOMAIN files
    /\ \A i \in 1..Len(file_stats_list) :
          \A k \in 1..Len(file_stats_list[i].proc_ids) :
              /\ file_stats_list[i].proc_ids[k] \in RegKeys(proc_registry)
              /\ \E bare \in DOMAIN proc_name_to_fq :
                    file_stats_list[i].proc_ids[k] \in proc_name_to_fq[bare]

\* the call graph is the one built from the registry and the index
CallGraphComplete ==
    call_graph = BuildCallGraph(proc_registry, proc_name_to_fq, dynamic_all).g

\* C22: the call-graph pass starts only after the first pass has completed for
\* every file, so that the registry and the bare-name index it reads hold the
\* procedures of all files; reachability starts only after the call graph is
\* complete, and scoring only after reachability
C22_PassOrder ==
    /\ [](AfterCallGraph => FirstPassComplete /\ CallGraphComplete)
    /\ [](AfterDepths => queue = <<>>)
    /\ [][(pc = "first_pass" /\ pc' = "depths") => FirstPassComplete]_vars
    /\ [][(depth' # depth \/ queue' # queue)
              => pc \in {"depths", "bfs"} /\ CallGraphComplete]_vars
    /\ [][file_results' # file_results => pc = "scores" /\ queue = <<>>]_vars
    /\ [][AfterCallGraph
              => /\ proc_registry' = proc_registry
                 /\ proc_name_to_fq' = proc_name_to_fq
                 /\ file_stats_list' = file_stats_list
                 /\ call_graph' = call_graph]_vars

\* two files, each with a procedure, are scanned, the graph is built over
\* both, a search has run and the files are scored
C22_Witness ==
    /\ pc = "done"
    /\ Len(file_stats_list) = 2
    /\ file_stats_list[1].proc_ids # <<>>
    /\ file_stats_list[2].proc_ids # <<>>
    /\ DOMAIN depth # {}
    /\ Len(file_results) = 2

----------------------------------------------------------------------------
(* C23: the body lines and the code-line count of a procedure.               *)

\* line k is the header of a procedure or function
IsHeader(lines, k) == NewProcName(lines[k]) # <<>>

\* the first line after header h that is an end marker or the next header,
\* or one past the last line
BodyEnd(lines, h) ==
    Min({k \in (h + 1)..Len(lines) : IsEndProc(lines[k]) \/ IsHeader(lines, k)}
        \cup {Len(lines) + 1})

\* the lines between header h and its end marker, in file order
LinesBetween(lines, h) == SubSeq(lines, h + 1, BodyEnd(lines, h) - 1)

\* the last header of the file with the name of procedure p
HeaderOf(lines, p) ==
    Max({k \in 1..Len(lines) : NewProcName(lines[k]) = p.proc_name})

\* how many lines of a sequence are code: neither comment nor blank
CodeCount(body) ==
    Cardinality({k \in 1..Len(body) : LineClass(body[k]) = "code"})

\* C23: the body lines of a procedure are, in file order, every line between
\* its header and its end marker, comment lines included, and its code-line
\* count is the number of the lines among them that are neither comment nor
\* blank
C23_BodyLines ==
    pc = "done" =>
        \A p \in Registered :
            /\ p.body_lines = LinesBetween(files[p.file_path], HeaderOf(files[p.file_path], p))
            /\ p.code_lines = CodeCount(LinesBetween(files[p.file_path], HeaderOf(files[p.file_path], p)))

\* what the code keeps: the code lines only, each counted
C23_CodeLinesOnly ==
    pc = "done" =>
        \A p \in Registered :
            /\ p.body_lines = SelectSeq(LinesBetween(files[p.file_path],
                                                     HeaderOf(files[p.file_path], p)),
                                        LAMBDA l : LineClass(l) = "code")
            /\ p.code_lines = Len(p.body_lines)

----------------------------------------------------------------------------
(* C24: the procedure a code line is appended to.                            *)

\* the scan reads code line `line`: a line that is counted and is neither a
\* comment nor blank
ReadsCode(line) ==
    /\ ReadsLine
    /\ ~IsSkipped(files[scan.path], scan'.lineno)
    /\ LineClass(line) = "code"

\* every procedure other than fq is registered as it was
OthersKept(fq) ==
    /\ RegKeys(proc_registry') \ {fq} = RegKeys(proc_registry) \ {fq}
    /\ \A q \in RegKeys(proc_registry) \ {fq} :
          RegGet(proc_registry', q) = RegGet(proc_registry, q)

\* the line opens a new procedure and is appended to no body
OpensProc(line) ==
    /\ scan'.current_proc # None
    /\ scan'.current_proc \in RegKeys(proc_registry')
    /\ RegGet(proc_registry', scan'.current_proc).proc_name = NewProcName(line)
    /\ RegGet(proc_registry', scan'.current_proc).body_lines = <<>>
    /\ OthersKept(scan'.current_proc)

\* the line is appended to the body of the open procedure and to no other
AppendedToOpen(line) ==
    /\ scan'.current_proc = scan.current_proc
    /\ RegGet(proc_registry', scan.current_proc).body_lines
          = Append(RegGet(proc_registry, scan.current_proc).body_lines, line)
    /\ OthersKept(scan.current_proc)

\* what becomes of the code line read
CodeLinePlaced(line) ==
    IF NewProcName(line) # <<>> THEN OpensProc(line)
    ELSE IF IsEndProc(line)
    THEN scan'.current_proc = None /\ proc_registry' = proc_registry
    ELSE IF scan.current_proc = None
    THEN scan'.current_proc = None /\ proc_registry' = proc_registry
    ELSE AppendedToOpen(line)

\* C24: during a scan a header line opens a new procedure, in place of any
\* still open, and is appended to no body; an end line closes the open
\* procedure and is not appended to its body; a code line after an end line
\* and before the next header is appended to no procedure; every other code
\* line read while a procedure is open is appended to that procedure alone
C24_LinePlacement ==
    [][ReadsCode(files[scan.path][scan'.lineno])
          => CodeLinePlaced(files[scan.path][scan'.lineno])]_vars

\* a header, a line of the body, the end line and a line after it have been
\* read: the body of Main is the one line
C24_Witness ==
    /\ pc = "done"
    /\ files[F1] = <<LProcMain, LIf, LEndProc, LEndIf>>
    /\ \E p \in Registered : p.proc_name = <<"M","a","i","n">> /\ p.body_lines = <<LIf>>

----------------------------------------------------------------------------
(* C25: the nesting level and its maximum.                                   *)

\* the line starts with a block-closing keyword and with no block-opening one
ClosesOnly(line) ==
    /\ StartsWithAny(Upper(Strip(line)), CONTROL_END)
    /\ ~StartsWithAny(Upper(Strip(line)), CONTROL_START)

\* the maximum is the larger of what it was and the level the line reaches,
\* and the line recorded changes exactly when the maximum grows
MaxFollows ==
    /\ scan'.max_nesting = Max({scan.max_nesting, scan'.nesting_level})
    /\ scan'.max_nesting_line = IF scan'.max_nesting > scan.max_nesting
                                THEN scan'.lineno ELSE scan.max_nesting_line

\* C25: at every point of a scan the nesting level is >= 0, a block-closing
\* keyword with no open block leaving it at 0; max_nesting is the largest
\* nesting level reached so far, and the line recorded with it is the first
\* line at which that maximum was reached
C25_Nesting ==
    /\ [](/\ scan.nesting_level >= 0
          /\ scan.max_nesting >= scan.nesting_level
          /\ (scan.max_nesting = 0 <=> scan.max_nesting_line = NoLine)
          /\ scan.max_nesting_line <= scan.lineno)
    /\ [][pc' = "scanning" /\ pc # "scanning"
              => scan'.nesting_level = 0 /\ scan'.max_nesting = 0]_vars
    /\ [][ReadsLine => MaxFollows]_vars
    /\ [][(ReadsCode(files[scan.path][scan'.lineno])
             /\ ClosesOnly(files[scan.path][scan'.lineno])
             /\ scan.nesting_level = 0) => scan'.nesting_level = 0]_vars

\* a closing keyword with no open block, then two blocks opened one in the
\* other: the maximum 2 is reached first on line 3
C25_Witness ==
    /\ pc = "done"
    /\ files[F1] = <<LEndIf, LIf, LIf, LEndIf>>
    /\ file_stats_list[1].max_nesting = 2
    /\ file_stats_list[1].max_nesting_line = 3

----------------------------------------------------------------------------
(* C26: the word oracle is memoized.                                         *)

\* every answer in the cache stays, as it is
CacheKept ==
    \A w \in DOMAIN dictionary_cache :
        w \in DOMAIN dictionary_cache' /\ dictionary_cache'[w] = dictionary_cache[w]

\* a call with word w2 after a call with word w1 returns what the first did
SameAnswer(w1, w2) ==
    \E r \in {DictionaryWordCall(dictionary_cache, synsets_calls, w1)} :
        DictionaryWordCall(r.cache, r.calls, w2).result = r.result

\* C26: the word oracle is memoized per lowercase token: over any sequence of
\* is_dictionary_word calls the external dictionary is consulted at most once
\* for each lowercase token, an answer in the cache is never changed or
\* removed, and calls with the same token, in any letter case, return the same
\* result
C26_OracleMemoized ==
    /\ [](\A w \in DOMAIN synsets_calls :
              /\ w = Lower(w)
              /\ synsets_calls[w] <= 1
              /\ w \in DOMAIN dictionary_cache)
    /\ [](\A w \in DOMAIN dictionary_cache :
              /\ w = Lower(w)
              /\ dictionary_cache[w] = (w \in WordNet))
    /\ [](\A w1 \in CacheWords :
              \A w2 \in {w \in CacheWords : Lower(w) = Lower(w1)} : SameAnswer(w1, w2))
    /\ [][CacheKept]_vars

\* a word of the dictionary and a word that is not have been looked up, each
\* with one call of wn.synsets
C26_Witness ==
    /\ DOMAIN dictionary_cache = {<<"s","e","t">>, <<"q","z","x">>}
    /\ dictionary_cache[<<"s","e","t">>]
    /\ ~dictionary_cache[<<"q","z","x">>]
    /\ synsets_calls[<<"s","e","t">>] = 1
    /\ synsets_calls[<<"q","z","x">>] = 1

----------------------------------------------------------------------------
(* C27: what a scan shares with the scans of other files.                    *)

\* the step in which a scan returns and the orchestrator takes its record
ScanReturns == pc = "scanning" /\ pc' = "first_pass"

\* C27: during the first pass the scan of a file changes no state it shares
\* with the scans of other files, the cache of the word oracle apart: the
\* registry and the bare-name index change only when the orchestrator merges
\* the procedures of a file, after the scan of that file has returned
C27_ScanSharesNothing ==
    /\ [][(proc_registry' # proc_registry \/ proc_name_to_fq' # proc_name_to_fq)
              => ScanReturns]_vars
    /\ [][ReadsLine =>
              /\ proc_registry' = proc_registry
              /\ proc_name_to_fq' = proc_name_to_fq
              /\ file_stats_list' = file_stats_list
              /\ all_dynamic_prefixes' = all_dynamic_prefixes]_vars

----------------------------------------------------------------------------
(* C28: no procedure discovered is lost.                                     *)

\* the header lines of a file that the scan reads
HeaderLines(path) ==
    {k \in 1..Len(files[path]) : IsHeader(files[path], k) /\ ~IsSkipped(files[path], k)}

\* the code lines between header h of a file and its end marker
CodeBody(path, h) ==
    SelectSeq(LinesBetween(files[path], h), LAMBDA l : LineClass(l) = "code")

\* header h of a file has a registry entry that holds its body
HasEntry(path, h) ==
    \E p \in Registered :
        /\ p.file_path = path
        /\ p.proc_name = NewProcName(files[path][h])
        /\ p.body_lines = CodeBody(path, h)

\* how many header lines the files of the folder have
HeaderCount ==
    Cardinality(UNION {{<<path, h>> : h \in HeaderLines(path)} : path \in DOMAIN files})

\* C28: no procedure discovered is lost: after the first pass every header
\* recognized in a file has a registry entry of its own that holds the body of
\* that procedure, and the proc_count of the record of every file is the
\* number of procedures discovered in that file, the length of its proc_ids,
\* also when two files or two headers yield the same fully-qualified name
C28_NoProcLost ==
    pc = "done" =>
        /\ \A path \in DOMAIN files : \A h \in HeaderLines(path) : HasEntry(path, h)
        /\ Len(proc_registry) = HeaderCount
        /\ \A i \in 1..Len(file_results) :
              file_results[i].proc_count = Len(file_stats_list[i].proc_ids)

----------------------------------------------------------------------------
(* C29: the call graph and the depth map are closed over the registry.       *)

\* every name of the set is the key of a registered procedure
AllRegistered(fqs) == fqs \subseteq RegKeys(proc_registry)

\* C29: every caller and every callee of the call graph is the
\* fully-qualified name of a registered procedure, every fully-qualified name
\* in the bare-name index is a registry key, and every key of the depth map
\* is a registry key
C29_ClosedOverRegistry ==
    /\ AllRegistered(DOMAIN call_graph)
    /\ \A caller \in DOMAIN call_graph : AllRegistered(call_graph[caller])
    /\ \A bare \in DOMAIN proc_name_to_fq : AllRegistered(proc_name_to_fq[bare])
    /\ AllRegistered(DOMAIN depth)
    /\ AllRegistered(SeqRange(cg_order)) /\ AllRegistered(SeqRange(queue))

\* a graph with a call from one file into the other, searched from Main: two
\* procedures at least have a depth
C29_Witness ==
    /\ pc = "done"
    /\ \E caller \in DOMAIN call_graph :
          \E callee \in call_graph[caller] :
              RegGet(proc_registry, caller).file_path
                  # RegGet(proc_registry, callee).file_path
    /\ Cardinality(DOMAIN depth) >= 2
    /\ Cardinality(DOMAIN proc_name_to_fq) >= 2

----------------------------------------------------------------------------
(* C30: the call-tree walk.                                                  *)

\* the nodes on the path from the root to the innermost dfs
PathNodes(w) == {w.stack[i].node : i \in 1..Len(w.stack)}

\* the walk meets a node: it writes the line of that node
Meets == pc = "tree" /\ Len(walk'.lines) > Len(walk.lines)
\* the node met
Met == walk'.lines[Len(walk.lines) + 1].text
\* the cycle marker is written
Marked == walk'.lines[Len(walk'.lines)].text = kCycle
\* the walk descends into the node met
Descends == Len(walk'.stack) = Len(walk.stack) + 1

\* the walk from a root has returned
RootReturned == pc \in {"tree", "tree_done"} /\ walk.lines # <<>> /\ walk.stack = <<>>

\* C30: the call-tree walk from the entry points ends on every finite call
\* graph, with self- or mutual recursion too: it stops descending and writes
\* a cycle marker exactly when it meets a node that is already on the path
\* from the root to it, and its visiting set is empty again when the walk
\* from a root returns
C30_WalkTerminates ==
    /\ [](pc = "tree" => <>(pc = "tree_done"))
    /\ [](pc \in {"tree", "tree_done"} => walk.visiting = PathNodes(walk))
    /\ [](RootReturned => walk.visiting = {})
    /\ [][Meets => /\ Marked <=> (walk.stack # <<>> /\ Met \in PathNodes(walk))
                   /\ Descends <=> ~(walk.stack # <<>> /\ Met \in PathNodes(walk))]_vars

\* Main calls A and A calls Main: the walk from Main has met Main again below
\* A, written the marker and returned
C30_Witness ==
    /\ pc = "tree_done"
    /\ Len(walk.lines) >= 4
    /\ \E i \in 1..Len(walk.lines) : walk.lines[i].text = kCycle /\ walk.lines[i].depth = 2
    /\ walk.visiting = {}

====
